---- MODULE Spec2Model ----
(***************************************************************************)
(* Model of the Argument Debugger (cli_args_debugger.cpp, seh_wrapper.cpp, *)
(* cli_args_display.hpp): the wWinMain life cycle, the message loop, the   *)
(* keyboard commands, the save/read file, the QR payload, the logger's     *)
(* critical section and the audio capture thread behind its SEH wrapper.   *)
(*                                                                         *)
(* Text is a sequence of one-character strings.  "NUL" is the character    *)
(* U+0000, "CR" 0x0D (VK_RETURN), "BS" 0x08 (VK_BACK), "ESC" 0x1B          *)
(* (VK_ESCAPE), "LF" the line feed and "BOM" the byte order mark.          *)
(***************************************************************************)
EXTENDS Integers, Sequences, FiniteSets, TLC

(***************************************************************************)
(* Bounds of the model.                                                    *)
(***************************************************************************)
\* Posted messages the queue holds at most (the environment stops posting).
MaxQueue == 2
\* Device-loss recoveries in one run.
MaxRecreate == 1
\* Clock advances in one run.
MaxTicks == 2
\* Value changes a test makes to synced_fps_ in one run of the persistence harness.
MaxSets == 3
\* Characters the user types in one run.
MaxKeys == 6
\* Calls of InitLogger and of Log in one run of the logger.
MaxInits == 3
MaxLogCalls == 3
\* The argument vectors of the formatting tests: their length and the length of an argument.
MaxArgCount == 2
MaxArgLen == 2
\* The longest command line of the model: the number of arguments and their length.
LongArgCount == 30
LongArgLen == 100
\* Lines of the longest log ShowLogs reads.
MaxLogLines == 103
\* Packets the capture client hands out.
MaxPackets == 2
\* Calls of Cleanup made on one window.
MaxCleanups == 3

(***************************************************************************)
(* Program constants.                                                      *)
(***************************************************************************)
\* UpdateQrCode: "if (current_time - last_qr_update_time_ < 5000) return;"
QrIntervalMs == 5000
\* RenderFrame: "if (currentTime - lastFpsLogTime > 5000)"
FpsLogIntervalMs == 5000
\* ReadData: "wchar_t buffer[256]; fgetws(buffer, 256, file)"
ReadBufferSize == 256
\* DataPersistenceTestHelper: "int synced_fps_ = 60;"
HarnessDefaultFps == 60
\* RunMessageLoop: "if (now - t0 > 10000)"
IdleLogIntervalMs == 10000
\* ShowLogs: "const size_t maxLines = 100;"
maxLines == 100
\* The largest int the persistence tests store in synced_fps_.
INT_MAX == 2147483647
\* "const size_t maxQrDataSize = 2953;  // Max for QR version 40 with Low EC"
maxQrDataSize == 2953
\* wchar_t buffer[1024] of ShowLogs
LogBufferSize == 1024

(***************************************************************************)
(* Faulty variants of operators defined below; a property that holds of    *)
(* the program must fail when the variant takes the operator's place.      *)
(***************************************************************************)
\* The file opened for appending instead of being emptied.
OpenForAppend(old) == old
\* The failed ReadData leaving loaded_data_ as it was.
KeepLoaded(old) == old
\* The __except block losing the exception code.
SehExitCodeLost(code) == <<0, 0>>
\* A start-up failure that is swallowed.
StartupNeverAborts(fail) == FALSE
\* synced_fps_ taken from something else than the value put in the payload.
SyncedFpsOff(fps_for_qr) == fps_for_qr + 1

(***************************************************************************)
(* Text helpers.                                                           *)
(***************************************************************************)
Digit == <<"0", "1", "2", "3", "4", "5", "6", "7", "8", "9">>

RECURSIVE NatToText(_)
NatToText(n) ==
    IF n < 10 THEN <<Digit[n + 1]>>
    ELSE NatToText(n \div 10) \o <<Digit[(n % 10) + 1]>>

\* std::to_wstring(int), "%d" and "%lld", operator<<(int): optional sign, decimal digits.
IntToText(n) == IF n < 0 THEN <<"-">> \o NatToText(0 - n) ELSE NatToText(n)

IsPrefix(p, s) == Len(p) <= Len(s) /\ SubSeq(s, 1, Len(p)) = p

RECURSIVE Concat(_)
Concat(ss) == IF ss = <<>> THEN <<>> ELSE Head(ss) \o Concat(Tail(ss))

\* The characters up to the first NUL: what a wchar_t* got from c_str() denotes.
RECURSIVE CStr(_)
CStr(s) ==
    IF s = <<>> \/ Head(s) = "NUL" THEN <<>>
    ELSE <<Head(s)>> \o CStr(Tail(s))

\* towlower in the "C" locale, on the letters of the model's keyboard.
ToLower(c) ==
    CASE c = "E" -> "e"
      [] c = "X" -> "x"
      [] c = "S" -> "s"
      [] c = "L" -> "l"
      [] OTHER -> c

LowerText(s) == [i \in 1..Len(s) |-> ToLower(s[i])]

\* _wcsicmp(a.c_str(), word) == 0
WcsicmpEqual(a, word) == LowerText(CStr(a)) = LowerText(CStr(word))

TextExit == <<"e", "x", "i", "t">>
TextSave == <<"s", "a", "v", "e">>
TextRead == <<"r", "e", "a", "d">>
TextLogs == <<"l", "o", "g", "s">>
CommandWords == {TextExit, TextSave, TextRead, TextLogs}

(***************************************************************************)
(* saved_data.txt: what SaveData writes and what ReadData reads back.      *)
(***************************************************************************)
TextTimestamp == <<"T", "i", "m", "e", "s", "t", "a", "m", "p", ":", " ">>
TextFps == <<"F", "P", "S", ":", " ">>

\* fwprintf(file, L"Timestamp: %lld\nFPS: %d\n", timestamp, synced_fps_)
SaveFormat(timestamp, fps) ==
    TextTimestamp \o IntToText(timestamp) \o <<"LF">> \o TextFps \o IntToText(fps) \o <<"LF">>

\* A text-mode stream translates every line feed written into CR LF.
RECURSIVE TextModeOut(_)
TextModeOut(s) ==
    IF s = <<>> THEN <<>>
    ELSE (IF Head(s) = "LF" THEN <<"CR", "LF">> ELSE <<Head(s)>>) \o TextModeOut(Tail(s))

\* A text-mode stream translates CR LF read into a line feed.
RECURSIVE TextModeIn(_)
TextModeIn(b) ==
    IF b = <<>> THEN <<>>
    ELSE IF Len(b) >= 2 /\ b[1] = "CR" /\ b[2] = "LF" THEN <<"LF">> \o TextModeIn(Tail(Tail(b)))
    ELSE <<Head(b)>> \o TextModeIn(Tail(b))

\* _wfopen_s(.., L"w, ccs=UTF-8") empties the file; the first write puts the byte order mark.
OpenForWrite(old) == <<>>
WriteStream(content, s) ==
    (IF content = <<>> THEN <<"BOM">> ELSE <<>>) \o content \o TextModeOut(s)

\* _wfopen_s(.., L"r, ccs=UTF-8"): the byte order mark is skipped, the rest is read as text.
OpenForRead(content) ==
    TextModeIn(IF content # <<>> /\ Head(content) = "BOM" THEN Tail(content) ELSE content)

\* fgetws(buffer, n, file): up to n-1 characters, stopping after a line feed.
RECURSIVE FgetwsLen(_, _)
FgetwsLen(s, room) ==
    IF s = <<>> \/ room = 0 THEN 0
    ELSE IF Head(s) = "LF" THEN 1
    ELSE 1 + FgetwsLen(Tail(s), room - 1)

\* "while (fgetws(buffer, 256, file)) loaded_data_ += buffer;"
RECURSIVE ReadLines(_, _)
ReadLines(stream, acc) ==
    IF stream = <<>> THEN acc
    ELSE LET n == FgetwsLen(stream, ReadBufferSize - 1)
         IN  ReadLines(SubSeq(stream, n + 1, Len(stream)), acc \o SubSeq(stream, 1, n))

(***************************************************************************)
(* The QR payload.                                                         *)
(***************************************************************************)
\* wstring_to_string: WideCharToMultiByte(CP_UTF8); "e_acute" (U+00E9) takes two bytes.
Utf8(c) == IF c = "e_acute" THEN <<"C3", "A9">> ELSE <<c>>

\* Every character converted, in order (the halves keep the evaluation shallow).
RECURSIVE wstring_to_string(_)
wstring_to_string(w) ==
    IF Len(w) = 0 THEN <<>>
    ELSE IF Len(w) = 1 THEN Utf8(w[1])
    ELSE LET half == Len(w) \div 2
         IN  wstring_to_string(SubSeq(w, 1, half))
                \o wstring_to_string(SubSeq(w, half + 1, Len(w)))

\* Faulty variant: the arguments separated by spaces, none after the last.
RECURSIVE ArgsTextNoTrailingSpace(_)
ArgsTextNoTrailingSpace(args) ==
    IF args = <<>> THEN <<>>
    ELSE IF Len(args) = 1 THEN wstring_to_string(Head(args))
    ELSE wstring_to_string(Head(args)) \o <<" ">> \o ArgsTextNoTrailingSpace(Tail(args))

RECURSIVE ArgsText(_)
ArgsText(args) ==
    IF args = <<>> THEN <<>>
    ELSE wstring_to_string(Head(args)) \o <<" ">> \o ArgsText(Tail(args))

\* oss << "t=" << unix_time << ";f=" << fps_for_qr; if (!args_.empty()) oss << ";args=" ...
QrPayload(unix, fps, args) ==
    <<"t", "=">> \o IntToText(unix) \o <<";", "f", "=">> \o IntToText(fps)
       \o (IF args = <<>> THEN <<>> ELSE <<";", "a", "r", "g", "s", "=">> \o ArgsText(args))

(***************************************************************************)
(* The arguments line of the window (cli_args_display.hpp).                *)
(***************************************************************************)
\* Faulty variant: quotes only for an argument with a space.
NeedsQuotesSpaceOnly(arg) == \E i \in 1..Len(arg) : arg[i] = " "

\* bool needsQuotes = arg.empty() || arg.find(L' ') != npos || arg.find(L'"') != npos;
needsQuotes(arg) ==
    \/ Len(arg) = 0
    \/ \E i \in 1..Len(arg) : arg[i] = " "
    \/ \E i \in 1..Len(arg) : arg[i] = "\""

\* Faulty variant: a space after every argument.
SpaceAfterEvery(i, size) == TRUE

\* "if (i < args.size() - 1)" in size_t arithmetic, i counted from 0 and below size.
SpaceAfter(i, size) == i < size - 1

\* The loop of BuildCliArgsText from index i (counted from 0) on.
RECURSIVE BuildCliArgsFrom(_, _)
BuildCliArgsFrom(args, i) ==
    IF i >= Len(args) THEN <<>>
    ELSE LET arg == args[i + 1]
         IN  (IF needsQuotes(arg) THEN <<"\"">> \o arg \o <<"\"">> ELSE arg)
                \o (IF SpaceAfter(i, Len(args)) THEN <<" ">> ELSE <<>>)
                \o BuildCliArgsFrom(args, i + 1)

BuildCliArgsText(args) == BuildCliArgsFrom(args, 0)

\* static_cast<int>(current_fps_): current_fps_ is kept in thousandths of a frame per second.
FloatToInt(milli) == milli \div 1000

\* current_fps_ = (delta_time > 0.0f) ? (1.0f / delta_time) : 0.0f, delta_time in seconds.
FpsOfDelta(delta_ms) == IF delta_ms > 0 THEN 1000000 \div delta_ms ELSE 0

(***************************************************************************)
(* 32-bit DWORD values are pairs <<high 16 bits, low 16 bits>>.            *)
(***************************************************************************)
DWord(hi, lo) == <<hi, lo>>
EXCEPTION_ACCESS_VIOLATION == DWord(49152, 5)       \* 0xC0000005
EXCEPTION_STACK_OVERFLOW == DWord(49152, 253)       \* 0xC00000FD
EXCEPTION_INT_DIVIDE_BY_ZERO == DWord(49152, 148)   \* 0xC0000094
CustomExceptionCode == DWord(57005, 48879)          \* 0xDEADBEEF
ExceptionCodes ==
    {EXCEPTION_ACCESS_VIOLATION, EXCEPTION_STACK_OVERFLOW,
     EXCEPTION_INT_DIVIDE_BY_ZERO, CustomExceptionCode}

HexDigit ==
    <<"0", "1", "2", "3", "4", "5", "6", "7", "8", "9", "A", "B", "C", "D", "E", "F">>

\* Four hexadecimal digits of a 16-bit value.
Hex4(v) ==
    <<HexDigit[(v \div 4096) + 1], HexDigit[((v \div 256) % 16) + 1],
      HexDigit[((v \div 16) % 16) + 1], HexDigit[(v % 16) + 1]>>

\* wsprintfW "%08X"
Hex8(code) == Hex4(code[1]) \o Hex4(code[2])

(***************************************************************************)
(* The microphone level and the capture packets of PollMicrophone.  A      *)
(* float is the fraction n / 2^e in lowest terms: with the samples and the *)
(* number of packets of the model no value needs more than the 24 bits of  *)
(* a float, so that every operation below is exact as the float one is.    *)
(* A UINT32 is <<high, low>> in 16-bit halves, a UINT64 three such parts.  *)
(***************************************************************************)
RECURSIVE Pow2(_)
Pow2(k) == IF k = 0 THEN 1 ELSE 2 * Pow2(k - 1)

Max(a, b) == IF a > b THEN a ELSE b

ZeroLevel == [n |-> 0, e |-> 0]

\* The fraction n / 2^e in lowest terms; the argument is evaluated once.
LowestTerms(x) ==
    LET Reduced(v) ==
            IF v.n = 0 THEN ZeroLevel
            ELSE LET k == CHOOSE j \in 0..v.e :
                              /\ v.n % Pow2(j) = 0
                              /\ j < v.e => v.n % Pow2(j + 1) # 0
                 IN  [n |-> v.n \div Pow2(k), e |-> v.e - k]
    IN  CHOOSE r \in {Reduced(v) : v \in {x}} : TRUE

\* "float val = samples[i] / 32768.0f; if (val < 0) val = -val;" for the
\* sample s in units of 1/32768 (the int16_t itself; a float sample s/32768).
AbsSample(s) == LowestTerms([n |-> IF s < 0 THEN 0 - s ELSE s, e |-> 15])

\* "val > peak"
Greater(a, b) == a.n * Pow2(b.e) > b.n * Pow2(a.e)

\* The loop "if (val > peak) peak = val;" over the samples.
RECURSIVE PeakFrom(_, _)
PeakFrom(samples, peak) ==
    IF samples = <<>> THEN peak
    ELSE PeakFrom(Tail(samples),
                  IF Greater(AbsSample(Head(samples)), peak) THEN AbsSample(Head(samples))
                  ELSE peak)

\* Faulty variant: the new peak alone.
Unsmoothed(level, peak) == peak

\* "current_level * 0.5f + peak * 0.5f"
Smoothed(level, peak) ==
    LET m == Max(level.e, peak.e) + 1
    IN  LowestTerms([n |-> level.n * Pow2(m - 1 - level.e) + peak.n * Pow2(m - 1 - peak.e),
                     e |-> m])

\* The product of two numbers below 2^16 as <<high, low>>.
Mul16(a, b) ==
    LET mid == (a \div 256) * (b % 256) + (a % 256) * (b \div 256)
        low == (a % 256) * (b % 256) + (mid % 256) * 256
    IN  <<(a \div 256) * (b \div 256) + (mid \div 256) + (low \div 65536), low % 65536>>

\* Faulty variant: the product in 32 bits.
Product32(frames, channels) ==
    <<0, (Mul16(frames[2], channels)[1] + Mul16(frames[1], channels)[2]) % 65536,
      Mul16(frames[2], channels)[2]>>

\* "static_cast<UINT64>(frames) * static_cast<UINT64>(channels)"
Product64(frames, channels) ==
    LET mid == Mul16(frames[2], channels)[1] + Mul16(frames[1], channels)[2]
    IN  <<Mul16(frames[1], channels)[1] + (mid \div 65536), mid % 65536,
          Mul16(frames[2], channels)[2]>>

\* "totalSamples64 > UINT32_MAX"
ExceedsUint32(product) == product[1] > 0

\* The samples of the buffer the loops read: the buffer holds the samples
\* of the packet, repeated up to its size.
SamplesRead(samples, totalSamples) ==
    IF totalSamples[2] > 0 \/ totalSamples[3] >= Len(samples) THEN samples
    ELSE SubSeq(samples, 1, totalSamples[3])

\* Mix formats of capture devices: 16-bit PCM with 0, 1, 2 and 65535
\* channels, 32-bit float, and 8-bit PCM, which PollMicrophone does not read.
Pcm16Stereo == [tag |-> "WAVE_FORMAT_PCM", bps |-> 16, channels |-> 2]
WaveFormats ==
    {[tag |-> "WAVE_FORMAT_PCM", bps |-> 16, channels |-> c] : c \in {0, 1, 2, 65535}}
       \cup {[tag |-> "WAVE_FORMAT_IEEE_FLOAT", bps |-> 32, channels |-> 2],
             [tag |-> "WAVE_FORMAT_PCM", bps |-> 8, channels |-> 1]}
NoFormat == [tag |-> "none", bps |-> 0, channels |-> 0]

\* "tag == WAVE_FORMAT_IEEE_FLOAT && bps == 32", "tag == WAVE_FORMAT_PCM && bps == 16"
FormatRead(f) ==
    \/ f.tag = "WAVE_FORMAT_IEEE_FLOAT" /\ f.bps = 32
    \/ f.tag = "WAVE_FORMAT_PCM" /\ f.bps = 16

\* What GetBuffer returns: data, frames, the silent flag, and the samples.
Packet(data, frames, silent, samples) ==
    [data |-> data, frames |-> frames, silent |-> silent, samples |-> samples]
Packets ==
    {Packet("null", <<0, 0>>, FALSE, <<>>), Packet("null", <<0, 480>>, FALSE, <<>>),
     Packet("valid", <<0, 0>>, FALSE, <<>>),
     Packet("valid", <<0, 2>>, TRUE, <<16384, 0>>),
     Packet("valid", <<0, 1>>, FALSE, <<16384>>),
     Packet("valid", <<0, 2>>, FALSE, <<8192, -32768>>),
     Packet("valid", <<1, 2>>, FALSE, <<16384>>),
     Packet("valid", <<65535, 65535>>, FALSE, <<16384>>)}

\* No packet yet.  got and released count the GetBuffer calls that succeeded
\* and the ReleaseBuffer calls made; end is how the round of the loop ended.
NoPacket ==
    [data |-> "null", frames |-> <<0, 0>>, silent |-> FALSE, samples |-> <<>>,
     format |-> NoFormat, total |-> <<0, 0, 0>>, read |-> <<>>, peak |-> ZeroLevel,
     before |-> ZeroLevel, end |-> "none", got |-> 0, released |-> 0]

(***************************************************************************)
(* Window messages.  wParam of a WM_CHAR or WM_KEYDOWN is the character.   *)
(***************************************************************************)
CharCode(c) ==
    CASE c = "NUL" -> 0   [] c = "BS" -> 8    [] c = "CR" -> 13   [] c = "ESC" -> 27
      [] c = " " -> 32    [] c = "E" -> 69    [] c = "L" -> 76    [] c = "S" -> 83
      [] c = "X" -> 88    [] c = "a" -> 97    [] c = "d" -> 100   [] c = "e" -> 101
      [] c = "g" -> 103   [] c = "i" -> 105   [] c = "l" -> 108   [] c = "o" -> 111
      [] c = "r" -> 114   [] c = "s" -> 115   [] c = "t" -> 116   [] c = "v" -> 118
      [] c = "x" -> 120   [] c = "z" -> 122

WmChar(c) == [type |-> "WM_CHAR", w |-> c]
WmKeyDown(c) == [type |-> "WM_KEYDOWN", w |-> c]
WmClose == [type |-> "WM_CLOSE", w |-> "NUL"]

VARIABLES
    \* wWinMain and RunMessageLoop
    main_pc,              \* where the main thread is
    exit_code,            \* <<>> or <<the value wWinMain returned>>
    run_result,           \* <<>> or <<the value RunMessageLoop returned>>
    message_box,          \* captions of the message boxes shown, in order
    loop_entered,         \* RunMessageLoop has been called
    failed_step,          \* the start-up step that failed, "none" if none
    log_open_failed,      \* _wfsopen in InitLogger returned nullptr
    mic_result,           \* how InitializeMicrophone ended, "none" before it ran
    window_handle_,       \* "null", "live", "destroyed"
    \* ArgumentDebuggerWindow
    is_running_, user_input_, command_status_, loaded_data_, args_,
    current_fps_, synced_fps_, last_time_, last_qr_update_time_, lastFpsLogTime,
    t0,                   \* RunMessageLoop's static: <<>> or <<the time of the last idle log>>
    qr_data,              \* <<>> or <<the last payload UpdateQrCode built>>
    qr_bitmap_,           \* 0 (null) or the generation of the render target that made it
    gfx,                  \* "none", "live", "released": the Direct3D/Direct2D objects
    d2d_gen,              \* generation of d2d_render_target_ (0: none)
    d3d_gen,              \* generation of the device and swap chain (0: none)
    last_frame,           \* what the last RenderFrame call did
    \* the thread's message queue
    msg_queue, quit_posted, quit_code, msg_wParam,
    hadMsg,               \* RunMessageLoop's local: a message was taken in this round
    \* WASAPI capture and its thread
    audio_pc, audio_in_log, audio_thread_running_, audio_event_, audio_thread_,
    mic_available_, mix_format_, capture_client_,
    audio_exit_code,      \* <<>> or <<the DWORD RawAudioThreadWithSEH returned>>
    audio_fault,          \* <<>> or <<the code of the structured exception raised>>
    seh_log,              \* the messages passed to LogSEH, in order
    \* the logger
    g_log_file,           \* "null", "open", "closed" (nullptr again after fclose)
    g_log_cs,             \* "uninit", "init", "deleted"
    cs_owner,             \* "none", "main", "audio"
    \* the environment
    saved_file,           \* saved_data.txt: [exists, data]
    now,                  \* GetTickCount64()
    unix_time,            \* time(nullptr)
    ticks,                \* clock advances so far
    \* history
    last_enter,           \* the last Enter OnCharInput handled: the buffer and the branch taken
    exit_requested,       \* OnCharInput has handled exit or Escape
    quit_posts,           \* calls of PostQuitMessage by OnCharInput so far
    last_save,            \* the last SaveData that wrote the file: time and FPS
    last_io,              \* the last of SaveData, ReadData, ShowLogs: what it found
    typed,                \* the characters the user typed since the last Enter
    keys,                 \* characters typed so far
    sets,                 \* assignments the persistence harness made to synced_fps_
    releases,             \* calls of Cleanup, CoTaskMemFree(mix_format_) and CloseHandle so far
    \* the argument formatting tests
    test_args,            \* the argument vector of the test
    actualArgsLine,       \* <<>> or <<what BuildCliArgsText returned>>
    \* the log file and the calls of Log
    log_file,             \* ArgumentDebugger.log: [exists, data]
    log_pending,          \* characters written to g_log_file and not yet flushed
    log_call,             \* for each thread, the call of Log it is in
    log_done,             \* the calls of Log that wrote or returned, in order
    inits,                \* calls of InitLogger so far
    \* ShowLogs
    show_pos,             \* characters of the log behind the position of ShowLogs' stream
    lastLines,            \* ShowLogs' local: the lines kept
    lines_read,           \* the lines fgetws has returned to ShowLogs, in order
    \* PollMicrophone
    mic_level_,           \* the float, as the fraction n / 2^e in lowest terms
    device_format,        \* the WAVEFORMATEX GetMixFormat returns for the capture device
    buffer_held,          \* the capture client has a buffer out that was not released
    packet                \* data, frames and flags of the last GetBuffer and what became of it

vLife == <<main_pc, exit_code, run_result, message_box, loop_entered, failed_step,
           log_open_failed, mic_result, window_handle_>>
vUi == <<is_running_, user_input_, command_status_, loaded_data_>>
vQr == <<current_fps_, synced_fps_, last_time_, last_qr_update_time_, lastFpsLogTime, t0,
         qr_data, qr_bitmap_>>
vGfx == <<gfx, d2d_gen, d3d_gen, last_frame>>
vMsg == <<msg_queue, quit_posted, quit_code, msg_wParam, hadMsg>>
vAudio == <<audio_pc, audio_in_log, audio_thread_running_, audio_event_, audio_thread_,
            mic_available_, mix_format_, capture_client_, audio_exit_code, audio_fault,
            seh_log>>
vLog == <<g_log_file, g_log_cs, cs_owner>>
vEnv == <<saved_file, now, unix_time, ticks>>
vShow == <<show_pos, lastLines, lines_read>>
vMic == <<mic_level_, device_format, buffer_held, packet>>
vTest == <<test_args, actualArgsLine, log_file, log_pending, log_call, log_done, inits,
           vShow, vMic>>
vHistRest == <<last_enter, exit_requested, quit_posts, last_save, last_io, typed, keys,
               sets, vTest>>
vHist == <<vHistRest, releases>>
vars == <<vLife, vUi, args_, vQr, vGfx, vMsg, vAudio, vLog, vEnv, vHist>>

StartTicks == {600000}
StartUnix == {1700000000}
\* A command line longer than any QR code holds.
LongArgs == [i \in 1..LongArgCount |-> [j \in 1..LongArgLen |-> "a"]]
ArgLists == {<<>>, << <<"a">>, <<"e_acute", "z">> >>, LongArgs}

NoFrame == [result |-> "none", bitmap |-> 0, target |-> 0, hr |-> "none", prev |-> "none",
            qr |-> FALSE, since |-> 0, encoded |-> TRUE]
NoEnter == [seen |-> FALSE, buffer |-> <<>>, ran |-> "none", status |-> "", after |-> <<>>]
NoSave == [valid |-> FALSE, t |-> 0, f |-> 0, overwrote |-> FALSE]
NoFile == [exists |-> FALSE, data |-> <<>>]
NoReleases == [cleanups |-> 0, mix_format |-> 0, audio_thread |-> 0, audio_event |-> 0]
\* The threads that call Log, and a thread that is in no call.
LogThreads == {"main", "audio"}
NoCall == [pc |-> "idle", text |-> <<>>, st |-> <<>>]
NoIo == [op |-> "none", opened |-> FALSE, existed |-> FALSE, had |-> FALSE, save |-> NoSave]

\* The members' default initialisers (cli_args_debugger.cpp 277-329), the
\* globals and the environment, but for main_pc and synced_fps_.
InitMembers ==
    /\ exit_code = <<>> /\ run_result = <<>> /\ message_box = <<>>
    /\ loop_entered = FALSE /\ failed_step = "none" /\ log_open_failed = FALSE
    /\ mic_result = "none" /\ window_handle_ = "null"
    /\ is_running_ = TRUE /\ user_input_ = <<>> /\ command_status_ = "" /\ loaded_data_ = <<>>
    /\ args_ = <<>>
    /\ current_fps_ = 0 /\ last_time_ = 0 /\ last_qr_update_time_ = 0
    /\ lastFpsLogTime = 0 /\ t0 = <<>> /\ qr_data = <<>> /\ qr_bitmap_ = 0
    /\ gfx = "none" /\ d2d_gen = 0 /\ d3d_gen = 0 /\ last_frame = NoFrame
    /\ msg_queue = <<>> /\ quit_posted = FALSE /\ quit_code = 0 /\ msg_wParam = 0
    /\ hadMsg = FALSE
    /\ audio_pc = "none" /\ audio_in_log = FALSE /\ audio_thread_running_ = FALSE
    /\ audio_event_ = "null" /\ audio_thread_ = "null" /\ mic_available_ = FALSE
    /\ mix_format_ = "null" /\ capture_client_ = "null" /\ audio_exit_code = <<>>
    /\ audio_fault = <<>> /\ seh_log = <<>>
    /\ g_log_file = "null" /\ g_log_cs = "uninit" /\ cs_owner = "none"
    /\ saved_file \in {NoFile}
    /\ now \in StartTicks /\ unix_time \in StartUnix /\ ticks = 0
    /\ last_enter = NoEnter /\ exit_requested = FALSE /\ quit_posts = 0 /\ last_save = NoSave
    /\ last_io = NoIo /\ typed = <<>> /\ keys = 0 /\ sets = 0 /\ releases = NoReleases
    /\ actualArgsLine = <<>>
    /\ log_pending = <<>> /\ log_call = [t \in LogThreads |-> NoCall] /\ log_done = <<>>
    /\ inits = 0
    /\ show_pos = 0 /\ lastLines = <<>> /\ lines_read = <<>>
    /\ mic_level_ = ZeroLevel /\ buffer_held = FALSE
    /\ packet = NoPacket

\* The process at the entry of wWinMain.  What Log writes is followed in the
\* specification of the logger only.
Init ==
    /\ InitMembers
    /\ main_pc = "start"
    /\ device_format = Pcm16Stereo
    /\ synced_fps_ = 0
    /\ test_args = <<>>
    /\ log_file = NoFile

(***************************************************************************)
(* The logger.  A Log call of the main thread is one step with the step    *)
(* that makes it: the call returns at once while g_log_file is null and    *)
(* otherwise has to enter g_log_cs, which it can when no thread owns it.   *)
(***************************************************************************)
LogReady == g_log_file # "open" \/ cs_owner = "none"

(***************************************************************************)
(* SaveData, ReadData, ShowLogs.  The argument is what the file system     *)
(* answers.                                                                *)
(***************************************************************************)
SaveOutcomes == {"ok", "no_appdata", "no_directory", "no_open"}
ReadOutcomes == {"ok", "no_appdata", "no_open"}
LogReads == {[opened |-> FALSE, lines |-> 0], [opened |-> TRUE, lines |-> 0],
             [opened |-> TRUE, lines |-> 2]}

StatusOfSave(sv) ==
    CASE sv = "ok" -> "Data saved successfully."
      [] sv = "no_open" -> "Error opening file for writing."
      [] sv = "no_directory" -> "Error creating directory."
      [] sv = "no_appdata" -> "Error retrieving AppData path."

SaveData(sv) ==
    /\ command_status_' = StatusOfSave(sv)
    /\ saved_file' =
          IF sv = "ok"
          THEN [exists |-> TRUE,
                data |-> WriteStream(OpenForWrite(saved_file.data),
                                     SaveFormat(unix_time, synced_fps_))]
          ELSE saved_file
    /\ last_save' = IF sv = "ok"
                    THEN [valid |-> TRUE, t |-> unix_time, f |-> synced_fps_,
                          overwrote |-> saved_file.exists]
                    ELSE last_save
    /\ last_io' = [op |-> "save", opened |-> (sv = "ok"), existed |-> saved_file.exists,
                   had |-> (loaded_data_ # <<>>), save |-> last_save']
    /\ UNCHANGED loaded_data_

\* The else branch of ReadData: "loaded_data_.clear();"
LoadedAfterFailedOpen(old) == <<>>

ReadData(rd) ==
    LET opened == rd = "ok" /\ saved_file.exists
    IN  /\ command_status_' =
              IF rd = "no_appdata" THEN "Error retrieving AppData path."
              ELSE IF opened THEN "Data loaded successfully."
              ELSE "File not found."
        /\ loaded_data_' =
              IF rd = "no_appdata" THEN loaded_data_
              ELSE IF opened THEN ReadLines(OpenForRead(saved_file.data), <<>>)
              ELSE LoadedAfterFailedOpen(loaded_data_)
        /\ last_io' = [op |-> IF rd = "no_appdata" THEN "read_no_path" ELSE "read",
                       opened |-> opened, existed |-> saved_file.exists,
                       had |-> (loaded_data_ # <<>>), save |-> last_save]
        /\ UNCHANGED <<saved_file, last_save>>

LogLine == <<"L", "LF">>

RECURSIVE LogLines(_)
LogLines(n) == IF n = 0 THEN <<>> ELSE LogLine \o LogLines(n - 1)

\* L"... (showing last " + std::to_wstring(lastLines.size()) + L" lines)\n\n"
LogHeader(n) ==
    <<".", ".", ".", " ", "(", "s", "h", "o", "w", "i", "n", "g", " ", "l", "a", "s", "t", " ">>
       \o IntToText(n) \o <<" ", "l", "i", "n", "e", "s", ")", "LF", "LF">>

ShowLogs(lg) ==
    LET kept == IF lg.lines > maxLines THEN maxLines ELSE lg.lines
    IN  /\ loaded_data_' = IF lg.opened THEN LogHeader(kept) \o LogLines(kept) ELSE <<>>
        /\ command_status_' = IF lg.opened THEN "Log file loaded (last 100 lines)."
                              ELSE "Log file not found."
        /\ last_io' = [op |-> "logs", opened |-> lg.opened, existed |-> saved_file.exists,
                       had |-> (loaded_data_ # <<>>), save |-> last_save]
        /\ UNCHANGED <<saved_file, last_save>>

(***************************************************************************)
(* OnCharInput.                                                            *)
(***************************************************************************)
vCmd == <<is_running_, user_input_, command_status_, loaded_data_, quit_posted, quit_code,
          saved_file, last_save, last_io, last_enter, exit_requested, quit_posts>>

\* PostQuitMessage(0); is_running_ = false;
QuitFromKeyboard ==
    /\ quit_posted' = TRUE /\ quit_code' = 0 /\ is_running_' = FALSE
    /\ exit_requested' = TRUE
    /\ quit_posts' = quit_posts + 1

Entered(ran) ==
    [seen |-> TRUE, buffer |-> user_input_, ran |-> ran, status |-> command_status_',
     after |-> user_input_']

OnCharInput(ch) ==
    IF ch = "CR" THEN
        /\ user_input_' = <<>>
        /\ IF WcsicmpEqual(user_input_, TextExit) THEN
               /\ QuitFromKeyboard
               /\ UNCHANGED <<command_status_, loaded_data_, saved_file, last_save, last_io>>
               /\ last_enter' = Entered("exit")
           ELSE IF WcsicmpEqual(user_input_, TextSave) THEN
               /\ \E sv \in SaveOutcomes : SaveData(sv)
               /\ last_enter' = Entered("save")
               /\ UNCHANGED <<quit_posted, quit_code, is_running_, exit_requested, quit_posts>>
           ELSE IF WcsicmpEqual(user_input_, TextRead) THEN
               /\ \E rd \in ReadOutcomes : ReadData(rd)
               /\ last_enter' = Entered("read")
               /\ UNCHANGED <<quit_posted, quit_code, is_running_, exit_requested, quit_posts>>
           ELSE IF WcsicmpEqual(user_input_, TextLogs) THEN
               /\ \E lg \in LogReads : ShowLogs(lg)
               /\ last_enter' = Entered("logs")
               /\ UNCHANGED <<quit_posted, quit_code, is_running_, exit_requested, quit_posts>>
           ELSE
               /\ command_status_' = "Unknown command."
               /\ last_enter' = Entered("none")
               /\ UNCHANGED <<loaded_data_, saved_file, last_save, last_io, quit_posted,
                              quit_code, is_running_, exit_requested, quit_posts>>
    ELSE IF ch = "BS" THEN
        /\ user_input_' = IF user_input_ # <<>>
                          THEN SubSeq(user_input_, 1, Len(user_input_) - 1)
                          ELSE user_input_
        /\ UNCHANGED <<is_running_, command_status_, loaded_data_, quit_posted, quit_code,
                       saved_file, last_save, last_io, last_enter, exit_requested, quit_posts>>
    ELSE IF ch = "ESC" THEN
        /\ QuitFromKeyboard
        /\ UNCHANGED <<user_input_, command_status_, loaded_data_, saved_file, last_save,
                       last_io, last_enter>>
    ELSE
        /\ user_input_' = Append(user_input_, ch)
        /\ UNCHANGED <<is_running_, command_status_, loaded_data_, quit_posted, quit_code,
                       saved_file, last_save, last_io, last_enter, exit_requested, quit_posts>>

(***************************************************************************)
(* Cleanup and the handles OnDestroy closes.                                *)
(***************************************************************************)
\* Faulty variant: mix_format_ keeps its value after CoTaskMemFree.
CleanupMixFormatKept == mix_format_

\* Cleanup: the graphics objects are reset and mix_format_ is freed;
\* "freed" is nullptr after CoTaskMemFree.
CleanupMixFormat == IF mix_format_ = "alloc" THEN "freed" ELSE mix_format_
CleanupGfx == IF gfx = "live" THEN "released" ELSE gfx

\* "if (mix_format_) { CoTaskMemFree(mix_format_); ... }" in a call of Cleanup.
AfterCleanup(r) ==
    [r EXCEPT !.cleanups = @ + 1,
              !.mix_format = IF mix_format_ = "alloc" THEN @ + 1 ELSE @]

\* "if (audio_thread_) { ... CloseHandle(audio_thread_); ... }" and
\* "if (audio_event_) { CloseHandle(audio_event_); ... }" in OnDestroy.
AfterCloseHandles(r) ==
    [r EXCEPT !.audio_thread = IF audio_thread_ = "open" THEN @ + 1 ELSE @,
              !.audio_event = IF audio_event_ = "open" THEN @ + 1 ELSE @]

(***************************************************************************)
(* Start-up: wWinMain up to the call of RunMessageLoop.                    *)
(***************************************************************************)
\* The steps that throw: CoInitializeEx, RegisterClass, CreateWindowEx,
\* CreateDeviceAndSwapChain, CreateRenderTargetView, CreateD2DResources,
\* CreateShadersAndGeometry.
StartupSteps == {"com", "class", "window", "device", "rtv", "d2d", "shaders"}

\* How InitializeMicrophone can end: thread started; a step before
\* mic_available_ = true threw; a step after GetMixFormat threw; CreateThread
\* returned nullptr.
MicOutcomes == {"ok", "no_device", "init_failed", "no_thread"}

\* A start-up step that fails throws; the catch block of wWinMain reports it.
StartupAborts(fail) == fail \in StartupSteps

LoopPcs == {"pump", "join", "render"}
AudioAlive ==
    {"entry", "log_started", "loop", "log_iter", "log_stopped", "poll", "get_buffer",
     "stop_check", "next_size"}

wWinMainStart(fail, logOpens, mic, args) ==
    /\ main_pc = "start"
    /\ failed_step' = fail
    /\ log_open_failed' = (fail # "com" /\ ~logOpens)
    /\ IF StartupAborts(fail) THEN
          /\ g_log_file' = IF fail # "com" /\ logOpens THEN "closed" ELSE "null"
          /\ g_log_cs' = "deleted"
          /\ message_box' = Append(message_box, "Initialization Error")
          /\ exit_code' = <<-1>>
          /\ main_pc' = "returned"
          /\ window_handle_' = IF fail \in {"com", "class", "window"} THEN "null" ELSE "live"
          /\ gfx' = IF fail \in {"com", "class", "window", "device"} THEN "none" ELSE "released"
          /\ args_' = IF fail = "com" THEN args_ ELSE args
          /\ UNCHANGED <<mic_result, d2d_gen, d3d_gen, vAudio>>
       ELSE
          /\ g_log_file' = IF logOpens THEN "open" ELSE "null"
          /\ g_log_cs' = "init"
          /\ args_' = args
          /\ window_handle_' = "live"
          /\ gfx' = "live" /\ d2d_gen' = 1 /\ d3d_gen' = 1
          /\ mic_result' = mic
          /\ mic_available_' = (mic \in {"ok", "no_thread"})
          /\ mix_format_' = IF mic = "no_device" THEN "null" ELSE "alloc"
          /\ capture_client_' = IF mic \in {"ok", "no_thread"} THEN "held" ELSE "null"
          /\ audio_event_' = IF mic \in {"ok", "no_thread"} THEN "open" ELSE "null"
          /\ audio_thread_running_' = (mic \in {"ok", "no_thread"})
          /\ audio_thread_' = IF mic = "ok" THEN "open" ELSE "null"
          /\ audio_pc' = IF mic = "ok" THEN "entry" ELSE "none"
          /\ main_pc' = "loop_start"
          /\ UNCHANGED <<message_box, exit_code, audio_in_log, audio_exit_code, audio_fault,
                         seh_log>>
    /\ UNCHANGED <<run_result, loop_entered, vUi, vQr, last_frame, vMsg, cs_owner, vEnv,
                   vHistRest>>
    \* the destructor of a window whose Initialize threw
    /\ releases' = IF StartupAborts(fail) /\ fail # "com" THEN AfterCleanup(releases)
                    ELSE releases

\* The last Log of InitializeMicrophone, then RunMessageLoop up to its loop.
RunMessageLoopStart ==
    /\ main_pc = "loop_start"
    /\ LogReady
    /\ loop_entered' = TRUE
    /\ last_time_' = now
    /\ main_pc' = "pump"
    /\ UNCHANGED <<exit_code, run_result, message_box, failed_step, log_open_failed,
                   mic_result, window_handle_, vUi, args_, current_fps_, synced_fps_,
                   last_qr_update_time_, lastFpsLogTime, t0, qr_data, qr_bitmap_, vGfx, vMsg,
                   vAudio, vLog, vEnv, vHist>>

(***************************************************************************)
(* The inner loop of RunMessageLoop: PeekMessage, TranslateMessage,        *)
(* DispatchMessage and the window procedure.                               *)
(***************************************************************************)
vPumpRest == <<exit_code, run_result, message_box, loop_entered, failed_step,
               log_open_failed, mic_result, args_, vQr, vGfx, vAudio, vLog, now, unix_time,
               ticks, typed, keys, sets, releases, vTest>>

\* Faulty variant: the window procedure passes the keys on at any time.
CharInputAlways == TRUE

\* "g_app_instance && g_app_instance->is_running()"
CharInputAllowed == is_running_

\* WM_CHAR: Log, then OnCharInput while the application is running.
PumpChar ==
    /\ main_pc = "pump" /\ msg_queue # <<>> /\ Head(msg_queue).type = "WM_CHAR"
    /\ LogReady
    /\ msg_queue' = Tail(msg_queue)
    /\ msg_wParam' = CharCode(Head(msg_queue).w)
    /\ hadMsg' = TRUE
    /\ IF CharInputAllowed THEN OnCharInput(Head(msg_queue).w) ELSE UNCHANGED vCmd
    /\ UNCHANGED <<main_pc, window_handle_, vPumpRest>>

\* WM_KEYDOWN: TranslateMessage posts the WM_CHAR of the key; the window
\* procedure passes Escape to OnCharInput while the application is running.
PumpKeyDown ==
    /\ main_pc = "pump" /\ msg_queue # <<>> /\ Head(msg_queue).type = "WM_KEYDOWN"
    /\ (Head(msg_queue).w = "ESC" /\ CharInputAllowed) => LogReady
    /\ msg_queue' = Append(Tail(msg_queue), WmChar(Head(msg_queue).w))
    /\ msg_wParam' = CharCode(Head(msg_queue).w)
    /\ hadMsg' = TRUE
    /\ IF Head(msg_queue).w = "ESC" /\ CharInputAllowed THEN OnCharInput("ESC")
       ELSE UNCHANGED vCmd
    /\ UNCHANGED <<main_pc, window_handle_, vPumpRest>>

\* WM_CLOSE: DefWindowProc destroys the window, which sends WM_DESTROY:
\* OnDestroy up to WaitForSingleObject.  DestroyWindow flushes the queue.
PumpClose ==
    /\ main_pc = "pump" /\ msg_queue # <<>> /\ Head(msg_queue).type = "WM_CLOSE"
    /\ LogReady
    /\ msg_queue' = <<>>
    /\ msg_wParam' = 0
    /\ hadMsg' = TRUE
    /\ window_handle_' = "destroyed"
    /\ is_running_' = FALSE
    /\ audio_thread_running_' = FALSE
    /\ main_pc' = "join"
    /\ UNCHANGED <<exit_code, run_result, message_box, loop_entered, failed_step,
                   log_open_failed, mic_result, user_input_, command_status_, loaded_data_,
                   args_, vQr, vGfx, quit_posted, quit_code, audio_pc, audio_in_log,
                   audio_event_, audio_thread_, mic_available_, mix_format_, capture_client_,
                   audio_exit_code, audio_fault, seh_log, vLog, vEnv, vHist>>

\* OnDestroy from the return of WaitForSingleObject(audio_thread_, INFINITE),
\* which needs the thread to have ended, to PostQuitMessage(0).
OnDestroyWait(at, back) ==
    /\ main_pc = at
    /\ audio_thread_ = "open" => audio_pc = "ended"
    /\ LogReady
    /\ audio_thread_' = IF audio_thread_ = "open" THEN "closed" ELSE audio_thread_
    /\ audio_event_' = IF audio_event_ = "open" THEN "closed" ELSE audio_event_
    /\ gfx' = CleanupGfx
    /\ qr_bitmap_' = 0
    /\ mix_format_' = CleanupMixFormat
    /\ quit_posted' = TRUE /\ quit_code' = 0
    /\ main_pc' = back
    /\ releases' = AfterCleanup(AfterCloseHandles(releases))
    /\ UNCHANGED <<exit_code, run_result, message_box, loop_entered, failed_step,
                   log_open_failed, mic_result, window_handle_, vUi, args_, current_fps_,
                   synced_fps_, last_time_, last_qr_update_time_, lastFpsLogTime, t0, qr_data,
                   d2d_gen, d3d_gen, last_frame, msg_queue, msg_wParam, hadMsg, audio_pc,
                   audio_in_log, audio_thread_running_, mic_available_, capture_client_,
                   audio_exit_code, audio_fault, seh_log, vLog, vEnv, vHistRest>>

OnDestroyJoin == OnDestroyWait("join", "pump")

\* PeekMessage returns WM_QUIT once the queue holds no posted message.
PumpQuit ==
    /\ main_pc = "pump" /\ msg_queue = <<>> /\ quit_posted
    /\ LogReady
    /\ quit_posted' = FALSE
    /\ msg_wParam' = quit_code
    /\ hadMsg' = TRUE
    /\ is_running_' = FALSE
    /\ main_pc' = "render"
    /\ UNCHANGED <<exit_code, run_result, message_box, loop_entered, failed_step,
                   log_open_failed, mic_result, window_handle_, user_input_, command_status_,
                   loaded_data_, args_, vQr, vGfx, msg_queue, quit_code, vAudio, vLog, vEnv,
                   vHist>>

\* PeekMessage returns FALSE; a round that took no message writes the idle
\* log when it is due.
PumpEmpty ==
    /\ main_pc = "pump" /\ msg_queue = <<>> /\ ~quit_posted
    /\ LET first == t0 = <<>>
           start == IF first THEN now ELSE t0[1]
           due == ~hadMsg /\ now - start > IdleLogIntervalMs
       IN  /\ due => LogReady
           /\ t0' = IF ~hadMsg /\ (due \/ first) THEN <<now>> ELSE t0
    /\ main_pc' = "render"
    /\ UNCHANGED <<exit_code, run_result, message_box, loop_entered, failed_step,
                   log_open_failed, mic_result, window_handle_, vUi, args_, current_fps_,
                   synced_fps_, last_time_, last_qr_update_time_, lastFpsLogTime, qr_data,
                   qr_bitmap_, vGfx, vMsg, vAudio, vLog, vEnv, vHist>>

(***************************************************************************)
(* RenderFrame with UpdateQrCode, and the catch block of RunMessageLoop.   *)
(* The argument is what Direct2D and DXGI answer in this frame.  A failed  *)
(* recreation fails in its first step.                                     *)
(***************************************************************************)
FrameOutcomes ==
    {"ok", "bitmap_fail", "brush_fail", "end_recreate", "end_recreate_fail", "end_fail",
     "present_removed", "present_reset", "present_lost_fail", "present_fail"}

\* Faulty variant: a regeneration only after more than the interval.
QrDueLate(current_time) == current_time - last_qr_update_time_ > QrIntervalMs

\* The frame counts as the regeneration of the QR code when the interval has passed.
QrDue(current_time) == current_time - last_qr_update_time_ >= QrIntervalMs

\* QrCode::encodeText(qr_data.c_str(), QrCode::Ecc::MEDIUM) throws data_too_long
\* when no version of the code holds the text; none holds more than maxQrDataSize.
EncodeTextThrows(payload) == Len(payload) > maxQrDataSize

\* synced_fps_ = fps_for_qr;
SyncedFpsOf(fps_for_qr) == fps_for_qr

\* A bitmap belongs to the render target that created it; EndDraw fails when
\* a bitmap of another render target was drawn.
StaleBitmap(bitmap, target) == bitmap # 0 /\ bitmap # target

\* What Cleanup and the recreation calls do to qr_bitmap_: nothing.
BitmapAfterRecreate(bitmap) == bitmap

RenderFrame(o) ==
    \* oss.str(), built once for the frame
    \E payload \in {QrPayload(unix_time, FloatToInt(FpsOfDelta(now - last_time_)), args_)} :
      LET current_time == now
          fps == FpsOfDelta(current_time - last_time_)
          regen == QrDue(current_time)
          fps_for_qr == FloatToInt(fps)
          encodeFails == regen /\ EncodeTextThrows(payload)
          bitmapFails == regen /\ ~encodeFails /\ o = "bitmap_fail"
          bitmap == IF regen /\ ~encodeFails THEN (IF bitmapFails THEN 0 ELSE d2d_gen)
                    ELSE qr_bitmap_
          brushFails == ~encodeFails /\ ~bitmapFails /\ o = "brush_fail"
          reachedEnd == ~encodeFails /\ ~bitmapFails /\ ~brushFails
          hrEnd == IF ~reachedEnd THEN "none"
                   ELSE IF StaleBitmap(bitmap, d2d_gen) THEN "D2DERR_WRONG_FACTORY"
                   ELSE IF o \in {"end_recreate", "end_recreate_fail"}
                        THEN "D2DERR_RECREATE_TARGET"
                   ELSE IF o = "end_fail" THEN "E_FAIL"
                   ELSE "S_OK"
          endRecreate == hrEnd = "D2DERR_RECREATE_TARGET"
          reachedPresent == hrEnd = "S_OK"
          logsFps == reachedPresent /\ current_time - lastFpsLogTime > FpsLogIntervalMs
          hrPresent == IF ~reachedPresent THEN "none"
                       ELSE IF o \in {"present_removed", "present_lost_fail"}
                            THEN "DXGI_ERROR_DEVICE_REMOVED"
                       ELSE IF o = "present_reset" THEN "DXGI_ERROR_DEVICE_RESET"
                       ELSE IF o = "present_fail" THEN "E_FAIL"
                       ELSE "S_OK"
          presentRecreate ==
              hrPresent \in {"DXGI_ERROR_DEVICE_REMOVED", "DXGI_ERROR_DEVICE_RESET"}
          throws == \/ encodeFails \/ bitmapFails \/ brushFails
                    \/ hrEnd \in {"D2DERR_WRONG_FACTORY", "E_FAIL"}
                    \/ endRecreate /\ o = "end_recreate_fail"
                    \/ hrPresent = "E_FAIL"
                    \/ presentRecreate /\ o = "present_lost_fail"
          recreates == (endRecreate \/ presentRecreate) /\ ~throws
          logs == throws \/ endRecreate \/ presentRecreate \/ logsFps
      IN  /\ main_pc = "render"
          /\ gfx = "live"
          /\ (endRecreate \/ presentRecreate) => d2d_gen <= MaxRecreate
          /\ logs => LogReady
          /\ last_time_' = current_time
          /\ current_fps_' = fps
          /\ last_qr_update_time_' = IF regen THEN current_time ELSE last_qr_update_time_
          /\ synced_fps_' = IF regen THEN SyncedFpsOf(fps_for_qr) ELSE synced_fps_
          /\ qr_data' = IF regen THEN <<payload>> ELSE qr_data
          /\ qr_bitmap_' = IF recreates THEN BitmapAfterRecreate(bitmap) ELSE bitmap
          /\ lastFpsLogTime' = IF logsFps THEN current_time ELSE lastFpsLogTime
          /\ d2d_gen' = IF recreates THEN d2d_gen + 1 ELSE d2d_gen
          /\ d3d_gen' = IF recreates /\ presentRecreate THEN d3d_gen + 1 ELSE d3d_gen
          /\ last_frame' = [result |-> IF throws THEN "render_error"
                                       ELSE IF endRecreate THEN "recreated_d2d"
                                       ELSE IF presentRecreate THEN "recreated_all"
                                       ELSE "presented",
                            bitmap |-> IF reachedEnd THEN bitmap ELSE 0,
                            target |-> d2d_gen,
                            hr |-> IF hrPresent # "none" THEN hrPresent ELSE hrEnd,
                            prev |-> last_frame.result,
                            qr |-> regen,
                            since |-> current_time - last_qr_update_time_,
                            encoded |-> ~encodeFails]
          /\ message_box' = IF throws THEN Append(message_box, "Render error") ELSE message_box
          /\ quit_posted' = (throws \/ quit_posted)
          /\ quit_code' = IF throws THEN 1 ELSE quit_code
          /\ main_pc' = IF throws \/ ~is_running_ THEN "loop_exit" ELSE "pump"
          /\ hadMsg' = IF throws \/ ~is_running_ THEN hadMsg ELSE FALSE
          /\ UNCHANGED <<exit_code, run_result, loop_entered, failed_step, log_open_failed,
                         mic_result, window_handle_, vUi, args_, t0, gfx, msg_queue, msg_wParam,
                         vAudio, vLog, vEnv, vHist>>

\* RenderFrame after Cleanup: immediate_context_ is null and the first call
\* through it reads address 0; the access violation is not a C++ exception,
\* the unhandled-exception filter lets the process be terminated.
RenderFrameAfterCleanup ==
    /\ main_pc = "render"
    /\ gfx # "live"
    /\ main_pc' = "crashed"
    /\ audio_pc' = IF audio_pc \in AudioAlive THEN "killed" ELSE audio_pc
    /\ last_frame' = [result |-> "access_violation", bitmap |-> 0, target |-> 0,
                      hr |-> "none", prev |-> last_frame.result,
                      qr |-> FALSE, since |-> 0, encoded |-> TRUE]
    /\ UNCHANGED <<exit_code, run_result, message_box, loop_entered, failed_step,
                   log_open_failed, mic_result, window_handle_, vUi, args_, vQr, gfx, d2d_gen,
                   d3d_gen, vMsg, audio_in_log, audio_thread_running_, audio_event_,
                   audio_thread_, mic_available_, mix_format_, capture_client_,
                   audio_exit_code, audio_fault, seh_log, vLog, vEnv, vHist>>

(***************************************************************************)
(* Leaving: the end of RunMessageLoop and the rest of wWinMain.            *)
(***************************************************************************)
\* Log "RunMessageLoop: finished"; return static_cast<int>(msg.wParam); then
\* the two Log calls of wWinMain.
RunMessageLoopReturn ==
    /\ main_pc = "loop_exit"
    /\ LogReady
    /\ run_result' = <<msg_wParam>>
    /\ main_pc' = "close_log"
    /\ UNCHANGED <<exit_code, message_box, loop_entered, failed_step, log_open_failed,
                   mic_result, window_handle_, vUi, args_, vQr, vGfx, vMsg, vAudio, vLog,
                   vEnv, vHist>>

\* fclose(g_log_file); g_log_file = nullptr; DeleteCriticalSection(&g_log_cs);
WinMainCloseLog ==
    /\ main_pc = "close_log"
    /\ g_log_file' = IF g_log_file = "open" THEN "closed" ELSE g_log_file
    /\ g_log_cs' = "deleted"
    /\ main_pc' = "destruct"
    /\ UNCHANGED <<exit_code, run_result, message_box, loop_entered, failed_step,
                   log_open_failed, mic_result, window_handle_, vUi, args_, vQr, vGfx, vMsg,
                   vAudio, cs_owner, vEnv, vHist>>

\* CoUninitialize; return exit_code; ~ArgumentDebuggerWindow runs Cleanup and
\* the members' destructors release the capture client.
WinMainReturn ==
    /\ main_pc = "destruct"
    /\ gfx' = CleanupGfx
    /\ qr_bitmap_' = 0
    /\ mix_format_' = CleanupMixFormat
    /\ releases' = AfterCleanup(releases)
    /\ capture_client_' = IF capture_client_ = "held" THEN "released" ELSE capture_client_
    /\ exit_code' = run_result
    /\ main_pc' = "returned"
    /\ UNCHANGED <<run_result, message_box, loop_entered, failed_step, log_open_failed,
                   mic_result, window_handle_, vUi, args_, current_fps_, synced_fps_,
                   last_time_, last_qr_update_time_, lastFpsLogTime, t0, qr_data, d2d_gen,
                   d3d_gen, last_frame, vMsg, audio_pc, audio_in_log, audio_thread_running_,
                   audio_event_, audio_thread_, mic_available_, audio_exit_code, audio_fault,
                   seh_log, vLog, vEnv, vHistRest>>

\* The process ends when wWinMain has returned: a thread still running ends with it.
ProcessExit ==
    /\ main_pc = "returned"
    /\ audio_pc \in AudioAlive
    /\ audio_pc' = "killed"
    /\ UNCHANGED <<vLife, vUi, args_, vQr, vGfx, vMsg, audio_in_log, audio_thread_running_,
                   audio_event_, audio_thread_, mic_available_, mix_format_, capture_client_,
                   audio_exit_code, audio_fault, seh_log, vLog, vEnv, vHist>>

(***************************************************************************)
(* The audio capture thread: RawAudioThreadWithSEH around                  *)
(* AudioCaptureThreadImpl.  A Log call of this thread takes two steps,     *)
(* entering g_log_cs and leaving it, so that a fault can fall in between.  *)
(***************************************************************************)
NoError == DWord(0, 0)

\* The __except block of RawAudioThreadWithSEH: the exit code it sets.
SehExitCode(code) ==
    IF code = EXCEPTION_ACCESS_VIOLATION THEN DWord(49152, 5)
    ELSE IF code = EXCEPTION_STACK_OVERFLOW THEN DWord(49152, 253)
    ELSE code

\* The __except block of RawAudioThreadWithSEH: the message it passes to LogSEH.
SehMessage(code) ==
    IF code = EXCEPTION_ACCESS_VIOLATION
    THEN [text |-> "SEH: Access violation in audio thread",
          hex |-> <<"C", "0", "0", "0", "0", "0", "0", "5">>]
    ELSE IF code = EXCEPTION_STACK_OVERFLOW
    THEN [text |-> "SEH: Stack overflow in audio thread",
          hex |-> <<"C", "0", "0", "0", "0", "0", "F", "D">>]
    ELSE [text |-> "SEH: Exception in audio thread, code=", hex |-> Hex8(code)]

AudioLogPcs == {"log_started", "log_iter", "log_stopped"}

vAudioRest == <<vLife, vUi, args_, vQr, vGfx, vMsg, audio_thread_running_, audio_event_,
                audio_thread_, mic_available_, mix_format_, capture_client_, g_log_file,
                g_log_cs, vEnv, vHist>>

\* CoInitializeEx; on failure "return 0", else the thread goes on to its first Log.
AudioEntry(coInitOk) ==
    /\ audio_pc = "entry"
    /\ audio_pc' = IF coInitOk THEN "log_started" ELSE "ended"
    /\ audio_exit_code' = IF coInitOk THEN audio_exit_code ELSE <<NoError>>
    /\ UNCHANGED <<audio_in_log, audio_fault, seh_log, cs_owner, vAudioRest>>

\* Log: EnterCriticalSection(&g_log_cs).
AudioLogEnter ==
    /\ audio_pc \in AudioLogPcs
    /\ ~audio_in_log
    /\ g_log_file = "open" /\ cs_owner = "none"
    /\ cs_owner' = "audio"
    /\ audio_in_log' = TRUE
    /\ UNCHANGED <<audio_pc, audio_exit_code, audio_fault, seh_log, vAudioRest>>

\* Log returns: after LeaveCriticalSection, or at once when g_log_file is null.
\* After the Log of a round the thread calls PollMicrophone, after "Audio
\* capture thread stopped" it returns 0.
AudioLogReturn ==
    /\ audio_pc \in AudioLogPcs
    /\ audio_in_log \/ g_log_file # "open"
    /\ cs_owner' = IF audio_in_log THEN "none" ELSE cs_owner
    /\ audio_in_log' = FALSE
    /\ audio_pc' = IF audio_pc = "log_stopped" THEN "ended"
                   ELSE IF audio_pc = "log_iter" THEN "poll"
                   ELSE "loop"
    /\ audio_exit_code' = IF audio_pc = "log_stopped" THEN <<NoError>> ELSE audio_exit_code
    /\ UNCHANGED <<audio_fault, seh_log, vAudioRest>>

\* Faulty variant: a loop that does not read the flag.
LoopForever == TRUE

\* "while (self->audio_thread_running_.load())"
LoopContinues == audio_thread_running_

\* One more round of the loop, or out of it.
AudioLoop ==
    /\ audio_pc = "loop"
    /\ audio_pc' = IF LoopContinues THEN "log_iter" ELSE "log_stopped"
    /\ UNCHANGED <<audio_in_log, audio_exit_code, audio_fault, seh_log, cs_owner, vAudioRest>>

\* A structured exception anywhere in AudioCaptureThreadImpl: the __except
\* block logs it through LogSEH (the critical section is recursive, so the
\* Log inside enters it even if the faulting code held it) and returns.
AudioFault(code) ==
    /\ audio_pc \in AudioAlive
    /\ audio_fault' = <<code>>
    /\ seh_log' = Append(seh_log, SehMessage(code))
    /\ audio_exit_code' = <<SehExitCode(code)>>
    /\ audio_pc' = "ended"
    /\ audio_in_log' = FALSE
    /\ UNCHANGED <<cs_owner, vAudioRest>>

(***************************************************************************)
(* PollMicrophone, called by the audio thread after the Log of each round  *)
(* of its loop.  Its steps end where it reads audio_thread_running_ or     *)
(* calls the capture client.  The Log calls inside are not followed.       *)
(***************************************************************************)
PollPcs == {"poll", "get_buffer", "stop_check", "next_size"}

\* What GetNextPacketSize answers: a failure, no packet, a packet.
PacketSizes == {"failed", "none", "packet"}

vPollRest == <<vLife, vUi, args_, vQr, vGfx, vMsg, audio_in_log, audio_thread_running_,
               audio_event_, audio_thread_, mic_available_, mix_format_, capture_client_,
               audio_exit_code, audio_fault, seh_log, vLog, vEnv, last_enter, exit_requested, quit_posts,
               last_save, last_io, typed, keys, sets, releases, test_args, actualArgsLine, log_file,
               log_pending, log_call, log_done, inits, vShow, device_format>>

\* What the thread finds behind mix_format_: the format of the device, or
\* nullptr.
FormatSeen == IF mix_format_ = "alloc" THEN device_format ELSE NoFormat

\* A call through capture_client_ needs the client: the destructor of the
\* window (WinMainReturn) has released it, and the call of a thread that
\* is past the test of capture_client_ is then a fault (AudioFault).
ClientCallable == capture_client_ = "held"

\* "while (pkt_len > 0)" after a GetNextPacketSize that answered size.
AfterPacketSize(size) == IF size = "packet" THEN "get_buffer" ELSE "loop"

\* The tests before the loop and the first GetNextPacketSize.
PollStart(size) ==
    /\ audio_pc = "poll"
    /\ size = "packet" => packet.got < MaxPackets
    /\ audio_pc' = IF ~audio_thread_running_ \/ capture_client_ # "held" THEN "loop"
                   ELSE AfterPacketSize(size)
    /\ UNCHANGED <<vMic, vPollRest>>

\* "UINT32 channels = mix_format_->nChannels; if (channels == 0) channels = 1;"
ChannelsOf(format) == IF format.channels = 0 THEN 1 ELSE format.channels

\* GetBuffer and the round of the loop up to the store of mic_level_.
\* GetBuffer fails while the buffer before is not released.
PollGetBuffer(hrOk, pkt) ==
    /\ audio_pc = "get_buffer"
    /\ ClientCallable
    /\ UNCHANGED vPollRest
    /\ IF ~hrOk \/ buffer_held
       THEN /\ audio_pc' = "loop"
            /\ UNCHANGED <<mic_level_, buffer_held, packet>>
       ELSE \* each value is computed once, as the locals of the code are
            \E format \in {FormatSeen} :
            \E totalSamples64 \in {Product64(pkt.frames, ChannelsOf(format))} :
              LET invalid == pkt.data = "null" \/ pkt.frames = <<0, 0>>
                  measured == ~pkt.silent /\ format # NoFormat
                  overflow == measured /\ ExceedsUint32(totalSamples64)
              IN  \E read \in {IF measured /\ ~overflow /\ FormatRead(format)
                               THEN SamplesRead(pkt.samples, totalSamples64) ELSE <<>>} :
                  \E peak \in {PeakFrom(read, ZeroLevel)} :
                    /\ packet' =
                          [data |-> pkt.data, frames |-> pkt.frames, silent |-> pkt.silent,
                           samples |-> pkt.samples, format |-> format,
                           total |-> IF measured THEN totalSamples64 ELSE <<0, 0, 0>>,
                           read |-> read, peak |-> peak, before |-> mic_level_,
                           end |-> IF invalid THEN "invalid"
                                   ELSE IF overflow THEN "overflow" ELSE "smoothed",
                           got |-> packet.got + 1,
                           released |-> IF invalid THEN packet.released + 1
                                        ELSE packet.released]
                    /\ buffer_held' = ~invalid
                    /\ mic_level_' = IF invalid \/ overflow THEN mic_level_
                                     ELSE Smoothed(mic_level_, peak)
                    /\ audio_pc' = IF invalid \/ overflow THEN "loop" ELSE "stop_check"

\* "if (!audio_thread_running_.load()) break;" and ReleaseBuffer.
PollRelease(hrOk) ==
    /\ audio_pc = "stop_check"
    /\ audio_thread_running_ => ClientCallable
    /\ IF ~audio_thread_running_
       THEN /\ audio_pc' = "loop"
            /\ UNCHANGED <<buffer_held, packet>>
       ELSE /\ audio_pc' = IF hrOk THEN "next_size" ELSE "loop"
            /\ buffer_held' = IF hrOk THEN FALSE ELSE buffer_held
            /\ packet' = [packet EXCEPT !.released = @ + 1]
    /\ UNCHANGED <<mic_level_, vPollRest>>

\* "if (!audio_thread_running_.load()) break;" and the next GetNextPacketSize.
PollNext(size) ==
    /\ audio_pc = "next_size"
    /\ audio_thread_running_ => ClientCallable
    /\ size = "packet" => packet.got < MaxPackets
    /\ audio_pc' = IF ~audio_thread_running_ THEN "loop" ELSE AfterPacketSize(size)
    /\ UNCHANGED <<vMic, vPollRest>>

(***************************************************************************)
(* The environment: the user at the keyboard and the clock.                *)
(***************************************************************************)
Keys == {"e", "x", "i", "t", "s", "a", "v", "r", "d", "l", "o", "g", "z", " ",
         "E", "X", "S", "L", "NUL", "CR", "BS"}

\* What the user types before Enter: the commands, the same with capitals,
\* a NUL (Ctrl+Shift+2) and characters around a command.
CmdWords ==
    CommandWords \cup
    {<<"E", "X", "i", "t">>, <<"S", "a", "v", "e">>, <<"r", "e", "a", "d", "z">>,
     <<"L", "o", "g", "S">>, <<"e", "x", "i", "t", "NUL">>, <<" ", "e", "x", "i", "t">>,
     <<"NUL", "r", "e", "a", "d">>}

vPostRest == <<vLife, vUi, args_, vQr, vGfx, quit_posted, quit_code, msg_wParam, hadMsg,
               vAudio, vLog, vEnv, last_enter, exit_requested, quit_posts, last_save, last_io, sets, releases,
               vTest>>

CanPost ==
    /\ main_pc \in {"pump", "render"}
    /\ window_handle_ = "live"
    /\ Len(msg_queue) < MaxQueue

PostKey(c, words) ==
    /\ CanPost
    /\ keys < MaxKeys
    /\ keys' = keys + 1
    /\ \/ c = "CR" /\ typed \in words \cup {<<>>}
       \/ c = "BS" /\ (typed = <<>> \/ Append(SubSeq(typed, 1, Len(typed) - 1), "z") \in words)
       \/ (c \notin {"CR", "BS"} /\ \E w \in words : IsPrefix(Append(typed, c), w))
    /\ msg_queue' = Append(msg_queue, WmChar(c))
    /\ typed' = IF c = "CR" THEN <<>>
                ELSE IF c = "BS" THEN SubSeq(typed, 1, Len(typed) - 1)
                ELSE Append(typed, c)
    /\ UNCHANGED vPostRest

PostCharCmd == \E c \in Keys : PostKey(c, CmdWords)

PostEscape ==
    /\ CanPost
    /\ msg_queue' = Append(msg_queue, WmKeyDown("ESC"))
    /\ UNCHANGED <<typed, keys, vPostRest>>

PostClose ==
    /\ CanPost
    /\ msg_queue' = Append(msg_queue, WmClose)
    /\ UNCHANGED <<typed, keys, vPostRest>>

TickSteps == {16, 5000}

Tick(d) ==
    /\ main_pc \in {"pump", "render"}
    /\ ticks < MaxTicks
    /\ now' = now + d
    /\ unix_time' = unix_time + (d \div 1000)
    /\ ticks' = ticks + 1
    /\ UNCHANGED <<vLife, vUi, args_, vQr, vGfx, vMsg, vAudio, vLog, saved_file, vHist>>

(***************************************************************************)
(* The application: start-up, the audio thread and its faults, and every   *)
(* way out of the message loop.                                            *)
(***************************************************************************)
wWinMain ==
    \E fail \in StartupSteps \cup {"none"}, logOpens \in BOOLEAN, mic \in MicOutcomes :
        wWinMainStart(fail, logOpens, mic, <<>>)

\* Frames of a run in which Direct2D fails at most in EndDraw.
Render == \E o \in {"ok", "end_fail"} : RenderFrame(o)

AudioStart == \E coInitOk \in BOOLEAN : AudioEntry(coInitOk)

AudioSeh == \E code \in ExceptionCodes : AudioFault(code)

\* A capture device that delivers a quiet and a loud packet.
FewPackets == {Packet("valid", <<0, 2>>, TRUE, <<16384, 0>>),
               Packet("valid", <<0, 1>>, FALSE, <<16384>>)}

AudioPollStart == \E size \in PacketSizes : PollStart(size)

AudioPollGetBuffer == \E pkt \in FewPackets : PollGetBuffer(TRUE, pkt)

AudioPollRelease == PollRelease(TRUE)

AudioPollNext == \E size \in PacketSizes : PollNext(size)

Next ==
    \/ wWinMain
    \/ RunMessageLoopStart
    \/ PumpChar
    \/ PumpKeyDown
    \/ PumpClose
    \/ OnDestroyJoin
    \/ PumpQuit
    \/ PumpEmpty
    \/ Render
    \/ RenderFrameAfterCleanup
    \/ RunMessageLoopReturn
    \/ WinMainCloseLog
    \/ WinMainReturn
    \/ ProcessExit
    \/ AudioStart
    \/ AudioLogEnter
    \/ AudioLogReturn
    \/ AudioLoop
    \/ AudioSeh
    \/ AudioPollStart
    \/ AudioPollGetBuffer
    \/ AudioPollRelease
    \/ AudioPollNext
    \/ PostEscape
    \/ PostClose

Spec == Init /\ [][Next]_vars

(***************************************************************************)
(* The keyboard: the application without a microphone, the user typing.    *)
(***************************************************************************)
StartNoMic == wWinMainStart("none", TRUE, "no_device", <<>>)

RenderOk == RenderFrame("ok")

NextCmd ==
    \/ StartNoMic
    \/ RunMessageLoopStart
    \/ PumpChar
    \/ PumpKeyDown
    \/ PumpClose
    \/ OnDestroyJoin
    \/ PumpQuit
    \/ PumpEmpty
    \/ RenderOk
    \/ RenderFrameAfterCleanup
    \/ RunMessageLoopReturn
    \/ WinMainCloseLog
    \/ WinMainReturn
    \/ PostCharCmd
    \/ PostEscape
    \/ PostClose

SpecCmd == Init /\ [][NextCmd]_vars

(***************************************************************************)
(* The microphone: the application with a capture device of any format,    *)
(* whose client hands out any packets and fails in any call.               *)
(***************************************************************************)
InitPoll ==
    /\ InitMembers
    /\ main_pc = "start"
    /\ synced_fps_ = 0
    /\ test_args = <<>>
    /\ log_file = NoFile
    /\ device_format \in WaveFormats

StartWithMic == wWinMainStart("none", TRUE, "ok", <<>>)

AudioAccessViolation == AudioFault(EXCEPTION_ACCESS_VIOLATION)

PollAnyGetBuffer == \E hrOk \in BOOLEAN, pkt \in Packets : PollGetBuffer(hrOk, pkt)

PollAnyRelease == \E hrOk \in BOOLEAN : PollRelease(hrOk)

NextPoll ==
    \/ StartWithMic
    \/ RunMessageLoopStart
    \/ PumpChar
    \/ PumpKeyDown
    \/ PumpClose
    \/ OnDestroyJoin
    \/ PumpQuit
    \/ PumpEmpty
    \/ RenderOk
    \/ RenderFrameAfterCleanup
    \/ RunMessageLoopReturn
    \/ WinMainCloseLog
    \/ WinMainReturn
    \/ ProcessExit
    \/ AudioStart
    \/ AudioLogEnter
    \/ AudioLogReturn
    \/ AudioLoop
    \/ AudioAccessViolation
    \/ AudioPollStart
    \/ PollAnyGetBuffer
    \/ PollAnyRelease
    \/ AudioPollNext
    \/ PostEscape
    \/ PostClose

SpecPoll == InitPoll /\ [][NextPoll]_vars

(***************************************************************************)
(* OnDestroy, Cleanup and the destructor, called in any order on a window  *)
(* whose Initialize has returned, with the audio thread running beside.    *)
(***************************************************************************)
StartAnyMic == \E mic \in MicOutcomes : wWinMainStart("none", TRUE, mic, <<>>)

\* OnDestroy up to WaitForSingleObject.
CallOnDestroy ==
    /\ main_pc = "loop_start"
    /\ releases.cleanups < MaxCleanups
    /\ LogReady
    /\ is_running_' = FALSE
    /\ audio_thread_running_' = FALSE
    /\ main_pc' = "test_join"
    /\ UNCHANGED <<exit_code, run_result, message_box, loop_entered, failed_step,
                   log_open_failed, mic_result, window_handle_, user_input_, command_status_,
                   loaded_data_, args_, vQr, vGfx, vMsg, audio_pc, audio_in_log, audio_event_,
                   audio_thread_, mic_available_, mix_format_, capture_client_,
                   audio_exit_code, audio_fault, seh_log, vLog, vEnv, vHist>>

\* The rest of OnDestroy.
CallOnDestroyJoin == OnDestroyWait("test_join", "loop_start")

\* Cleanup; as the body of the destructor it is followed by the destructors
\* of the members, which release the capture client.
CleanupCall(destructs) ==
    /\ main_pc = "loop_start"
    /\ releases.cleanups < MaxCleanups
    /\ LogReady
    /\ gfx' = CleanupGfx
    /\ qr_bitmap_' = 0
    /\ mix_format_' = CleanupMixFormat
    /\ releases' = AfterCleanup(releases)
    /\ capture_client_' = IF destructs /\ capture_client_ = "held" THEN "released"
                          ELSE capture_client_
    /\ main_pc' = IF destructs THEN "destroyed" ELSE main_pc
    /\ UNCHANGED <<exit_code, run_result, message_box, loop_entered, failed_step,
                   log_open_failed, mic_result, window_handle_, vUi, args_, current_fps_,
                   synced_fps_, last_time_, last_qr_update_time_, lastFpsLogTime, t0, qr_data,
                   d2d_gen, d3d_gen, last_frame, vMsg, audio_pc, audio_in_log,
                   audio_thread_running_, audio_event_, audio_thread_, mic_available_,
                   audio_exit_code, audio_fault, seh_log, vLog, vEnv, vHistRest>>

CallCleanup == CleanupCall(FALSE)
CallDestructor == CleanupCall(TRUE)

NextCleanup ==
    \/ StartAnyMic
    \/ CallOnDestroy
    \/ CallOnDestroyJoin
    \/ CallCleanup
    \/ CallDestructor
    \/ AudioStart
    \/ AudioLogEnter
    \/ AudioLogReturn
    \/ AudioLoop
    \/ AudioPollStart
    \/ AudioPollGetBuffer
    \/ AudioPollRelease
    \/ AudioPollNext

SpecCleanup == Init /\ [][NextCleanup]_vars

(***************************************************************************)
(* Closing the window: the application with any outcome of                 *)
(* InitializeMicrophone, the user closing the window at any time, and the  *)
(* audio thread ending by itself, by a fault, or not before OnDestroy.     *)
(* Every call of the audio thread returns and the scheduler lets the       *)
(* thread run: its next step is taken when it stays possible.              *)
(***************************************************************************)
AudioThreadStep ==
    \/ AudioStart
    \/ AudioLogEnter
    \/ AudioLogReturn
    \/ AudioLoop
    \/ AudioPollStart
    \/ AudioPollGetBuffer
    \/ AudioPollRelease
    \/ AudioPollNext

NextJoin ==
    \/ StartAnyMic
    \/ RunMessageLoopStart
    \/ PumpClose
    \/ OnDestroyJoin
    \/ PumpQuit
    \/ PumpEmpty
    \/ RenderOk
    \/ RenderFrameAfterCleanup
    \/ PostClose
    \/ AudioStart
    \/ AudioLogEnter
    \/ AudioLogReturn
    \/ AudioLoop
    \/ AudioPollStart
    \/ AudioPollGetBuffer
    \/ AudioPollRelease
    \/ AudioPollNext
    \/ AudioAccessViolation

SpecJoin == Init /\ [][NextJoin]_vars /\ WF_vars(AudioThreadStep)

(***************************************************************************)
(* Rendering: the clock, the QR code and device loss.                      *)
(***************************************************************************)
StartWithArgs == \E args \in ArgLists : wWinMainStart("none", TRUE, "no_device", args)

RenderAny == \E o \in FrameOutcomes : RenderFrame(o)

Clock == \E d \in TickSteps : Tick(d)

NextRender ==
    \/ StartWithArgs
    \/ RunMessageLoopStart
    \/ PumpChar
    \/ PumpKeyDown
    \/ PumpQuit
    \/ PumpEmpty
    \/ RenderAny
    \/ RunMessageLoopReturn
    \/ WinMainCloseLog
    \/ WinMainReturn
    \/ PostEscape
    \/ Clock

SpecRender == Init /\ [][NextRender]_vars

(***************************************************************************)
(* The argument formatting tests (CliArgsTest): BuildCliArgsText applied   *)
(* to an argument vector.                                                  *)
(***************************************************************************)
\* The characters of the tests' arguments: a letter, a space, a double quote, a tab.
CliArgChars == {"a", " ", "\"", "TAB"}

SeqsUpTo(S, n) == UNION {[1..k -> S] : k \in 0..n}

CliArgVectors == SeqsUpTo(SeqsUpTo(CliArgChars, MaxArgLen), MaxArgCount)

InitCliArgs ==
    /\ InitMembers
    /\ main_pc = "cli_test"
    /\ device_format = Pcm16Stereo
    /\ synced_fps_ = 0
    /\ test_args \in CliArgVectors
    /\ log_file = NoFile

\* std::wstring actualArgsLine = BuildCliArgsText(args);
CliArgsTest ==
    /\ main_pc = "cli_test"
    /\ actualArgsLine = <<>>
    /\ actualArgsLine' = <<BuildCliArgsText(test_args)>>
    /\ UNCHANGED <<vLife, vUi, args_, vQr, vGfx, vMsg, vAudio, vLog, vEnv, last_enter,
                   exit_requested, quit_posts, last_save, last_io, typed, keys, sets, releases, test_args,
                   log_file, log_pending, log_call, log_done, inits, vShow, vMic>>

NextCliArgs == CliArgsTest

SpecCliArgs == InitCliArgs /\ [][NextCliArgs]_vars

(***************************************************************************)
(* The logger: InitLogger and Log on ArgumentDebugger.log, called by the   *)
(* threads of the program and by the logging tests.  A call of Log is      *)
(* three steps: the test of g_log_file, EnterCriticalSection with          *)
(* GetLocalTime, and fputws with fflush and LeaveCriticalSection.          *)
(***************************************************************************)
\* SYSTEMTIME values GetLocalTime returns: every field below 10, and none.
LocalTimes ==
    {[wYear |-> 2024, wMonth |-> 1, wDay |-> 5, wHour |-> 9, wMinute |-> 3, wSecond |-> 7],
     [wYear |-> 2025, wMonth |-> 12, wDay |-> 31, wHour |-> 23, wMinute |-> 59, wSecond |-> 58]}

\* "if (st.wMonth < 10) entry += L"0"; entry += std::to_wstring(st.wMonth)"
Padded(n) == (IF n < 10 THEN <<"0">> ELSE <<>>) \o NatToText(n)

\* The entry Log builds: L"[" ... L"] " + text + L"\n".
LogEntry(st, text) ==
    <<"[">> \o NatToText(st.wYear) \o <<"-">> \o Padded(st.wMonth) \o <<"-">>
       \o Padded(st.wDay) \o <<" ">> \o Padded(st.wHour) \o <<":">> \o Padded(st.wMinute)
       \o <<":">> \o Padded(st.wSecond) \o <<"]", " ">> \o text \o <<"LF">>

\* fputws(entry.c_str(), g_log_file) on the text-mode stream: the characters
\* up to the first NUL, every line feed as CR LF.
FputwsEntry(entry) == TextModeOut(CStr(entry))

TextWmCreate == <<"W", "M", "_", "C", "R", "E", "A", "T", "E">>
\* L"WM_CHAR: \"" + std::wstring(1, static_cast<wchar_t>(wparam)) + L"\""
TextWmChar(c) == <<"W", "M", "_", "C", "H", "A", "R", ":", " ", "\"", c, "\"">>
TextAudioSignal == <<"A", "u", "d", "i", "o", " ", "t", "h", "r", "e", "a", "d", ":", " ",
                     "s", "i", "g", "n", "a", "l", " ", "r", "e", "c", "e", "i", "v", "e", "d">>

\* What a thread passes to Log: the window procedure the character typed
\* (a letter, or the NUL of Ctrl+2), the audio thread its progress.
LogTexts(t) ==
    IF t = "main" THEN {TextWmChar("e"), TextWmChar("NUL")} ELSE {TextAudioSignal}

\* The log a former run left, and no log.
OldLog ==
    [exists |-> TRUE,
     data |-> <<"BOM">> \o FputwsEntry(LogEntry(CHOOSE st \in LocalTimes : st.wYear = 2024,
                                                TextWmCreate))]
LogFilesAtStart == {NoFile, OldLog}

InitLog ==
    /\ InitMembers
    /\ main_pc = "logger"
    /\ device_format = Pcm16Stereo
    /\ synced_fps_ = 0
    /\ test_args = <<>>
    /\ log_file \in LogFilesAtStart

vLogRest == <<vLife, vUi, args_, vQr, vGfx, vMsg, vAudio, vEnv, last_enter, exit_requested, quit_posts,
              last_save, last_io, typed, keys, sets, releases, test_args, actualArgsLine, vShow,
              vMic>>

\* _wfsopen(.., L"a+, ccs=UTF-16LE", ..): a new or empty file gets the byte
\* order mark from the run-time library, other content is kept.
WfsopenAppend(data) == IF data = <<>> THEN <<"BOM">> ELSE data

\* The position of the stream after the open, in characters: behind the
\* byte order mark the library wrote or found.
PositionAfterOpen(data) == IF data = <<>> \/ Head(data) = "BOM" THEN 1 ELSE 0

\* Faulty variant: the byte order mark written on every call.
BomAlways(position) == TRUE

\* "if (g_log_file && ftell(g_log_file) == 0) fputwc(0xFEFF, g_log_file);"
BomNeeded(position) == position = 0

\* InitLogger, called while no thread is in Log.  The stream opened before
\* is not closed: what it still holds is not written.
InitLogger(opens) ==
    /\ main_pc = "logger"
    /\ inits < MaxInits
    /\ \A t \in LogThreads : log_call[t].pc = "idle"
    /\ inits' = inits + 1
    /\ g_log_file' = IF opens THEN "open" ELSE "null"
    /\ log_file' = IF opens THEN [exists |-> TRUE, data |-> WfsopenAppend(log_file.data)]
                   ELSE log_file
    /\ log_pending' = IF opens /\ BomNeeded(PositionAfterOpen(log_file.data))
                      THEN <<"BOM">> ELSE <<>>
    /\ g_log_cs' = "init"
    /\ cs_owner' = "none"
    /\ UNCHANGED <<log_call, log_done, vLogRest>>

\* Log(text): "if (!g_log_file) return;"
LogBegin(t, text) ==
    /\ main_pc = "logger"
    /\ log_call[t].pc = "idle"
    /\ Len(log_done) + Cardinality({u \in LogThreads : log_call[u].pc # "idle"}) < MaxLogCalls
    /\ IF g_log_file = "open"
       THEN /\ log_call' = [log_call EXCEPT ![t] = [pc |-> "enter", text |-> text, st |-> <<>>]]
            /\ UNCHANGED log_done
       ELSE /\ log_done' = Append(log_done, [thread |-> t, text |-> text, st |-> <<>>,
                                             open |-> FALSE, inits |-> inits])
            /\ UNCHANGED log_call
    /\ UNCHANGED <<log_file, log_pending, inits, vLog, vLogRest>>

\* EnterCriticalSection(&g_log_cs); GetLocalTime(&st);
LogEnter(t, st) ==
    /\ main_pc = "logger"
    /\ log_call[t].pc = "enter"
    /\ cs_owner \in {"none", t}
    /\ cs_owner' = t
    /\ log_call' = [log_call EXCEPT ![t].pc = "write", ![t].st = <<st>>]
    /\ UNCHANGED <<log_file, log_pending, log_done, inits, g_log_file, g_log_cs, vLogRest>>

\* fputws(entry.c_str(), g_log_file); fflush(g_log_file); LeaveCriticalSection(&g_log_cs);
LogWrite(t) ==
    /\ main_pc = "logger"
    /\ log_call[t].pc = "write"
    /\ log_file' = [log_file EXCEPT
                      !.data = @ \o log_pending
                                 \o FputwsEntry(LogEntry(log_call[t].st[1], log_call[t].text))]
    /\ log_pending' = <<>>
    /\ cs_owner' = "none"
    /\ log_done' = Append(log_done, [thread |-> t, text |-> log_call[t].text,
                                     st |-> log_call[t].st, open |-> TRUE, inits |-> inits])
    /\ log_call' = [log_call EXCEPT ![t] = NoCall]
    /\ UNCHANGED <<inits, g_log_file, g_log_cs, vLogRest>>

LoggerInit == \E opens \in BOOLEAN : InitLogger(opens)

LogCalled == \E t \in LogThreads : \E text \in LogTexts(t) : LogBegin(t, text)

LogEntered == \E t \in LogThreads : \E st \in LocalTimes : LogEnter(t, st)

LogWritten == \E t \in LogThreads : LogWrite(t)

NextLog ==
    \/ LoggerInit
    \/ LogCalled
    \/ LogEntered
    \/ LogWritten

SpecLog == InitLog /\ [][NextLog]_vars

(***************************************************************************)
(* ShowLogs read by read: the open with the test for the byte order mark,  *)
(* one step for every fgetws that returns a line, and the build of         *)
(* loaded_data_ when fgetws returns null.                                  *)
(***************************************************************************)
Min(a, b) == IF a < b THEN a ELSE b

\* What Log leaves in the file for a text without line feed and NUL.
EntryInFile(text) ==
    LET st == CHOOSE t \in LocalTimes : t.wYear = 2024
        empty == FputwsEntry(LogEntry(st, <<>>))
    IN  SubSeq(empty, 1, Len(empty) - 2) \o text \o <<"CR", "LF">>

NumberText(i) ==
    <<Digit[((i \div 100) % 10) + 1], Digit[((i \div 10) % 10) + 1], Digit[(i % 10) + 1]>>

\* A log of n entries, the i-th with the text i.
LogOfLines(n) ==
    LET width == Len(EntryInFile(NumberText(0)))
    IN  [exists |-> TRUE,
         data |-> [k \in 1..(n * width + 1) |->
                     IF k = 1 THEN "BOM"
                     ELSE EntryInFile(NumberText((k - 2) \div width + 1))[((k - 2) % width) + 1]]]

\* A log with an entry that does not fit the buffer of ShowLogs.
WideLog ==
    [exists |-> TRUE,
     data |-> <<"BOM">> \o EntryInFile(NumberText(1))
                 \o EntryInFile([i \in 1..LogBufferSize |-> "a"])
                 \o EntryInFile(NumberText(3))]

ShowLogsFiles ==
    {NoFile, WideLog} \cup {LogOfLines(n) : n \in {0, 1, maxLines, maxLines + 1, MaxLogLines}}

InitShowLogs ==
    /\ InitMembers
    /\ main_pc = "show_logs"
    /\ device_format = Pcm16Stereo
    /\ synced_fps_ = 0
    /\ test_args = <<>>
    /\ log_file \in ShowLogsFiles

vShowRest == <<exit_code, run_result, message_box, loop_entered, failed_step, log_open_failed,
               mic_result, window_handle_, is_running_, user_input_, args_, vQr, vGfx, vMsg,
               vAudio, vLog, vEnv, last_enter, exit_requested, quit_posts, last_save, last_io, typed, keys,
               sets, releases, test_args, actualArgsLine, log_file, log_pending, log_call, log_done,
               inits, vMic>>

\* _wfsopen(.., L"r, ccs=UTF-16LE", ..): the stream starts behind the byte order mark.
PositionAfterOpenRead(data) == IF data # <<>> /\ Head(data) = "BOM" THEN 1 ELSE 0

\* fgetws(buffer, size, log_file) at position pos of the text-mode stream: up
\* to size-1 characters, stopping after a line feed; CR LF is read as a line
\* feed.  The line returned and the position behind it.
FgetwsAt(data, pos, size) ==
    LET room == size - 1
        lfs == {i \in (pos + 1)..Min(Len(data), pos + room + 1) : data[i] = "LF"}
        lf == IF lfs = {} THEN 0 ELSE CHOOSE i \in lfs : \A j \in lfs : i <= j
        crlf == lf > pos + 1 /\ data[lf - 1] = "CR"
        translated == IF crlf THEN lf - pos - 1 ELSE lf - pos
        end == Min(Len(data), pos + room)
    IN  IF lf # 0 /\ translated <= room
        THEN [line |-> SubSeq(data, pos + 1, IF crlf THEN lf - 2 ELSE lf - 1) \o <<"LF">>,
              pos |-> lf]
        ELSE [line |-> SubSeq(data, pos + 1, end), pos |-> end]

\* std::wstring(buffer): the characters of the buffer up to the first NUL.
WStringOf(buffer) ==
    LET nuls == {i \in 1..Len(buffer) : buffer[i] = "NUL"}
    IN  IF nuls = {} THEN buffer
        ELSE SubSeq(buffer, 1, (CHOOSE i \in nuls : \A j \in nuls : i <= j) - 1)

\* Faulty variant: the oldest line removed only when the window holds more than maxLines.
WindowFullLate(size) == size > maxLines

\* "if (lastLines.size() >= maxLines)"
WindowFull(size) == size >= maxLines

\* lastLines.erase(lastLines.begin()) when the window is full; lastLines.push_back(buffer)
PushLine(lines, buffer) ==
    Append(IF WindowFull(Len(lines)) THEN Tail(lines) ELSE lines, WStringOf(buffer))

\* "for (const auto& line : lastLines) loaded_data_ += line;" for the lines lo..hi
RECURSIVE JoinLines(_, _, _)
JoinLines(lines, lo, hi) ==
    IF lo > hi THEN <<>>
    ELSE IF lo = hi THEN lines[lo]
    ELSE JoinLines(lines, lo, (lo + hi) \div 2) \o JoinLines(lines, (lo + hi) \div 2 + 1, hi)

\* ShowLogs up to the loop: loaded_data_.clear(), the open, fflush, and the
\* test of the first character; fseek(log_file, 0, SEEK_SET) puts the stream
\* before the byte order mark, which is then read as a character.
ShowLogsOpen(opens) ==
    /\ main_pc = "show_logs"
    /\ loaded_data_' = <<>>
    /\ lastLines' = <<>>
    /\ lines_read' = <<>>
    /\ IF opens /\ log_file.exists
       THEN LET after == PositionAfterOpenRead(log_file.data)
                first_char == IF after < Len(log_file.data) THEN log_file.data[after + 1]
                              ELSE "WEOF"
            IN  /\ show_pos' = IF first_char = "BOM" THEN after + 1 ELSE 0
                /\ main_pc' = "show_read"
                /\ UNCHANGED command_status_
       ELSE /\ command_status_' = "Log file not found."
            /\ main_pc' = "show_done"
            /\ UNCHANGED show_pos
    /\ UNCHANGED vShowRest

\* One round of "while (fgetws(buffer, 1024, log_file))".
ShowLogsRead ==
    /\ main_pc = "show_read"
    /\ show_pos < Len(log_file.data)
    /\ LET read == FgetwsAt(log_file.data, show_pos, LogBufferSize)
       IN  /\ lastLines' = PushLine(lastLines, read.line)
           /\ lines_read' = Append(lines_read, read.line)
           /\ show_pos' = read.pos
    /\ UNCHANGED <<main_pc, loaded_data_, command_status_, vShowRest>>

\* fgetws returns null at the end of the file: the header, the lines kept, fclose.
ShowLogsBuild ==
    /\ main_pc = "show_read"
    /\ show_pos >= Len(log_file.data)
    /\ loaded_data_' = LogHeader(Len(lastLines)) \o JoinLines(lastLines, 1, Len(lastLines))
    /\ command_status_' = "Log file loaded (last 100 lines)."
    /\ main_pc' = "show_done"
    /\ UNCHANGED <<vShow, vShowRest>>

ShowLogsOpened == \E opens \in BOOLEAN : ShowLogsOpen(opens)

NextShowLogs ==
    \/ ShowLogsOpened
    \/ ShowLogsRead
    \/ ShowLogsBuild

SpecShowLogs == InitShowLogs /\ [][NextShowLogs]_vars

(***************************************************************************)
(* The persistence harness (DataPersistenceTestHelper): the copies of      *)
(* SaveData and ReadData on public members, synced_fps_ set by the test.   *)
(***************************************************************************)
\* The values the tests store in synced_fps_.
HarnessFpsValues == {0, -1, 30, INT_MAX}

\* The fixture after SetUp: no saved file, synced_fps_ = 60.
InitPersist ==
    /\ InitMembers
    /\ main_pc = "harness"
    /\ device_format = Pcm16Stereo
    /\ synced_fps_ = HarnessDefaultFps
    /\ test_args = <<>>
    /\ log_file = NoFile

vHarnessRest == <<vLife, is_running_, user_input_, args_, current_fps_, last_time_,
                  last_qr_update_time_, lastFpsLogTime, t0, qr_data, qr_bitmap_, vGfx, vMsg,
                  vAudio, vLog, now, last_enter, exit_requested, quit_posts, typed, keys>>

HarnessSaveData ==
    /\ main_pc = "harness"
    /\ \E sv \in SaveOutcomes : SaveData(sv)
    /\ UNCHANGED <<synced_fps_, unix_time, ticks, sets, releases, vTest, vHarnessRest>>

HarnessReadData ==
    /\ main_pc = "harness"
    /\ \E rd \in ReadOutcomes : ReadData(rd)
    /\ UNCHANGED <<synced_fps_, unix_time, ticks, sets, releases, vTest, vHarnessRest>>

\* helper.synced_fps_ = v;
HarnessSetFps ==
    /\ main_pc = "harness"
    /\ sets < MaxSets
    /\ \E v \in HarnessFpsValues : synced_fps_' = v
    /\ sets' = sets + 1
    /\ UNCHANGED <<command_status_, loaded_data_, saved_file, last_save, last_io, unix_time,
                   ticks, releases, vTest, vHarnessRest>>

\* DeleteFileW(file_path.c_str());
CleanupTestFiles ==
    /\ main_pc = "harness"
    /\ saved_file' = NoFile
    /\ last_save' = NoSave
    /\ UNCHANGED <<synced_fps_, command_status_, loaded_data_, last_io, unix_time, ticks,
                   sets, releases, vTest, vHarnessRest>>

\* A second passes between two calls.
HarnessClock ==
    /\ main_pc = "harness"
    /\ ticks < MaxTicks
    /\ unix_time' = unix_time + 1
    /\ ticks' = ticks + 1
    /\ UNCHANGED <<synced_fps_, command_status_, loaded_data_, saved_file, last_save, last_io,
                   sets, releases, vTest, vHarnessRest>>

NextPersist ==
    \/ HarnessSaveData
    \/ HarnessReadData
    \/ HarnessSetFps
    \/ CleanupTestFiles
    \/ HarnessClock

SpecPersist == InitPersist /\ [][NextPersist]_vars

(***************************************************************************)
(* Properties.                                                             *)
(***************************************************************************)
\* A resource the audio thread uses has been released, closed or deleted.
AudioResourceReleased ==
    \/ capture_client_ = "released"
    \/ mix_format_ = "freed"
    \/ audio_event_ = "closed"
    \/ g_log_file = "closed"
    \/ g_log_cs = "deleted"

\* C1: on every exit path, once a resource the audio thread uses is released,
\* closed or deleted, audio_thread_running_ is false and the thread has ended.
C1_FlagPlusJoinOnEveryExit ==
    (mic_result = "ok" /\ AudioResourceReleased)
        => (~audio_thread_running_ /\ audio_pc = "ended")

\* C2: RawAudioThreadWithSEH returns 0 when AudioCaptureThreadImpl completes,
\* and after a structured exception it returns the exception's code and has
\* passed exactly one message, naming that code, to LogSEH.
C2_SehExitCode ==
    /\ audio_pc # "ended" => seh_log = <<>>
    /\ audio_pc = "ended" =>
          IF audio_fault = <<>>
          THEN audio_exit_code = <<NoError>> /\ seh_log = <<>>
          ELSE /\ audio_exit_code = audio_fault
               /\ Len(seh_log) = 1
               /\ seh_log[1].hex = Hex8(audio_fault[1])

\* The audio thread ended by a fault with a code of its own.
C2_Witness ==
    /\ audio_pc = "ended"
    /\ audio_fault = <<CustomExceptionCode>>
    /\ audio_exit_code = <<CustomExceptionCode>>

\* The main thread is at a Log call that cannot enter g_log_cs.
MainAtLog ==
    \/ main_pc \in {"loop_start", "join", "loop_exit"}
    \/ main_pc = "pump" /\ msg_queue # <<>> /\ Head(msg_queue).type \in {"WM_CHAR", "WM_CLOSE"}
    \/ main_pc = "pump" /\ msg_queue = <<>> /\ quit_posted

\* C3: after a structured exception in the audio thread, wherever it fell,
\* the main thread is never blocked: a Log call it makes can enter g_log_cs.
C3_FaultEndsOnlyAudioThread ==
    (audio_fault # <<>> /\ MainAtLog) => LogReady

CommandName(w) ==
    CASE w = TextExit -> "exit"
      [] w = TextSave -> "save"
      [] w = TextRead -> "read"
      [] w = TextLogs -> "logs"

\* C4: on Enter a command runs if and only if the whole buffer equals its
\* word ignoring case; any other buffer gives "Unknown command."; the buffer
\* is empty afterwards.
C4_EnterMatchesWholeBuffer ==
    last_enter.seen =>
        /\ last_enter.after = <<>>
        /\ IF LowerText(last_enter.buffer) \in CommandWords
           THEN last_enter.ran = CommandName(LowerText(last_enter.buffer))
           ELSE last_enter.ran = "none" /\ last_enter.status = "Unknown command."

\* C5: after exit and Enter, or Escape, is_running_ is false, the message
\* loop is left in order, and RunMessageLoop returns 0.
C5_ExitQuitsWithZero ==
    exit_requested =>
        /\ ~is_running_
        /\ main_pc # "crashed"
        /\ run_result # <<>> => run_result = <<0>>

\* The failure of a start-up step that throws is reported and ends wWinMain with -1.
StartupFailureAborts ==
    failed_step # "none" =>
        /\ main_pc = "returned"
        /\ exit_code = <<-1>>
        /\ message_box = <<"Initialization Error">>
        /\ ~loop_entered

\* C6 as written: a failed COM, window class, window or graphics step is
\* reported in a message box and ends wWinMain with -1 before the message
\* loop; start-up that goes on to the loop has had no failure but,
\* possibly, that of the microphone.
C6_OnlyMicFailureTolerated ==
    /\ StartupFailureAborts
    /\ (main_pc # "start" /\ main_pc # "returned" /\ exit_code = <<>>) => ~log_open_failed

\* C6: a failed COM, window class, window or graphics step is reported in a
\* message box and ends wWinMain with -1 before the message loop; a failure
\* of the microphone or of opening the log file does not abort start-up.
C6_StartupFailures ==
    /\ StartupFailureAborts
    /\ (main_pc # "start" /\ failed_step = "none") => (main_pc = "loop_start" \/ loop_entered)

\* Direct2D could not be set up: reported, wWinMain returned -1.
C6_Witness ==
    /\ failed_step = "d2d"
    /\ main_pc = "returned"
    /\ exit_code = <<-1>>

\* C7: the frames that follow a recovery from device loss are rendered with
\* the recreated resources and do not end in a render error over a resource
\* of the lost target.
C7_FramesAfterRecreation ==
    last_frame.prev \in {"recreated_d2d", "recreated_all"} =>
        /\ last_frame.bitmap \in {0, last_frame.target}
        /\ last_frame.hr # "D2DERR_WRONG_FACTORY"

\* C8: a ReadData that opens the file SaveData wrote last reports success and
\* loads exactly the two lines of that last save.
C8_ReadReturnsLastSave ==
    (last_io.op = "read" /\ last_io.opened /\ last_io.save.valid) =>
        /\ command_status_ = "Data loaded successfully."
        /\ loaded_data_ = SaveFormat(last_io.save.t, last_io.save.f)

\* A negative FPS saved over an earlier file and read back.
C8_Witness ==
    /\ last_io.op = "read" /\ last_io.opened
    /\ last_io.save.valid /\ last_io.save.overwrote
    /\ last_io.save.f < 0

\* C9: a ReadData that cannot open the file reports "File not found.", leaves
\* loaded_data_ empty and does not create the file.
C9_ReadMissingFile ==
    (last_io.op = "read" /\ ~last_io.opened) =>
        /\ command_status_ = "File not found."
        /\ loaded_data_ = <<>>
        /\ ~last_io.existed => ~saved_file.exists

\* ReadData found no file while loaded_data_ held an earlier record.
C9_Witness ==
    /\ last_io.op = "read" /\ ~last_io.opened /\ ~last_io.existed
    /\ last_io.had

\* The position after the first ";f=" of a payload, 0 if there is none.
RECURSIVE FindFps(_, _)
FindFps(p, i) ==
    IF i + 2 > Len(p) THEN 0
    ELSE IF SubSeq(p, i, i + 2) = <<";", "f", "=">> THEN i + 3
    ELSE FindFps(p, i + 1)

DigitValue(c) == CHOOSE d \in 0..9 : Digit[d + 1] = c

RECURSIVE ReadNat(_, _, _)
ReadNat(p, i, acc) ==
    IF i > Len(p) \/ p[i] \notin {Digit[d] : d \in 1..10} THEN acc
    ELSE ReadNat(p, i + 1, acc * 10 + DigitValue(p[i]))

\* The f= value a reader of the QR code gets.
FpsOfPayload(p) ==
    LET i == FindFps(p, 1)
    IN  IF i = 0 \/ i > Len(p) THEN -1
        ELSE IF p[i] = "-" THEN 0 - ReadNat(p, i + 1, 0)
        ELSE ReadNat(p, i, 0)

SyncedFpsMatchesPayload ==
    synced_fps_ = (IF qr_data = <<>> THEN 0 ELSE FpsOfPayload(qr_data[1]))

\* C10: synced_fps_ is the f= value of the last QR payload (0 before the
\* first), and only a step that builds a new payload changes it.
C10_SyncedFpsIsQrFps ==
    /\ []SyncedFpsMatchesPayload
    /\ [][synced_fps_' # synced_fps_ =>
            (main_pc = "render" /\ qr_data' # qr_data /\ last_qr_update_time_' = now)]_vars

\* A payload with a non-zero FPS has been built.
C10_Witness ==
    /\ qr_data # <<>>
    /\ synced_fps_ > 0
    /\ FpsOfPayload(qr_data[1]) = synced_fps_

\* A frame is rendered: RenderFrame returns or throws.
FrameRendered == main_pc = "render" /\ gfx = "live" /\ main_pc' # "render"

\* C11: a call of UpdateQrCode at tick time T that follows a regeneration
\* regenerates the code if and only if T minus the time of that regeneration
\* is at least 5000 ms, and otherwise changes neither the bitmap,
\* last_qr_update_time_, synced_fps_ nor the payload; two consecutive
\* regenerations are at least 5000 ms apart.
C11_QrRegeneratedEveryFiveSeconds ==
    /\ [][(FrameRendered /\ qr_data # <<>>) =>
            IF now - last_qr_update_time_ >= 5000
            THEN last_frame'.qr /\ last_qr_update_time_' = now
            ELSE /\ ~last_frame'.qr
                 /\ UNCHANGED <<qr_bitmap_, last_qr_update_time_, synced_fps_, qr_data>>]_vars
    /\ [][(qr_data # <<>> /\ last_qr_update_time_' # last_qr_update_time_) =>
            last_qr_update_time_' - last_qr_update_time_ >= 5000]_vars

\* A regeneration exactly 5000 ms after the one before.
C11_Witness ==
    /\ last_frame.qr
    /\ last_frame.since = 5000
    /\ last_qr_update_time_ = now

\* The payload the claim describes for a time u, an FPS value f and arguments a.
PayloadOfClaim(u, f, a) ==
    <<"t", "=">> \o NatToText(u) \o <<";", "f", "=">> \o IntToText(f)
       \o (IF Len(a) = 0 THEN <<>>
           ELSE <<";", "a", "r", "g", "s", "=">>
                  \o Concat([i \in 1..Len(a) |-> wstring_to_string(a[i]) \o <<" ">>]))

\* The values time(nullptr) has returned so far.
UnixTimesSoFar == UNION {t..unix_time : t \in StartUnix}

\* C12: the QR payload is "t=<unix time>;f=<integer FPS>", followed, if and
\* only if the argument list is non-empty, by ";args=" and every argument in
\* its order, each followed by exactly one space.
C12_QrPayloadFormat ==
    qr_data # <<>> =>
        \E u \in UnixTimesSoFar : qr_data[1] = PayloadOfClaim(u, synced_fps_, args_)

\* A payload with an args section has been built.
C12_Witness ==
    /\ qr_data # <<>>
    /\ Len(args_) = 2
    /\ qr_data[1][Len(qr_data[1])] = " "

\* GetTickCount64() when RunMessageLoop is entered: the clock of the model
\* advances only while the loop runs.
LoopStartTime == CHOOSE t \in StartTicks : TRUE

\* C19: synced_fps_ keeps its initial value 0 during the first 5 seconds
\* after the render loop starts and takes a measured FPS value only afterwards.
C19_SyncedFpsWaitsFiveSeconds ==
    (loop_entered /\ now - LoopStartTime < 5000) => synced_fps_ = 0

\* C20: for every argument list, however long, the payload handed to the QR
\* encoder is at most 2953 characters, so QR generation never fails because
\* of the arguments and never ends the render loop.
C20_QrPayloadFitsCapacity ==
    /\ qr_data # <<>> => Len(qr_data[1]) <= 2953
    /\ last_frame.encoded

\* The argument has a character of the set.
HasChar(arg, chars) == \E i \in 1..Len(arg) : arg[i] \in chars

\* The arguments, wrapped in quotes where q says so, with single spaces between them.
RECURSIVE JoinQuoted(_, _)
JoinQuoted(a, q) ==
    IF a = <<>> THEN <<>>
    ELSE (IF Head(q) THEN <<"\"">> \o Head(a) \o <<"\"">> ELSE Head(a))
            \o (IF Tail(a) = <<>> THEN <<>> ELSE <<" ">> \o JoinQuoted(Tail(a), Tail(q)))

QuotedByC16(arg) == arg = <<>> \/ HasChar(arg, {" ", "\""})

QuotedByC17(arg) == QuotedByC16(arg) \/ HasChar(arg, {"TAB", "LF"})

\* C17: BuildCliArgsText wraps in double quotes every argument that contains
\* a tab or a newline, also when it contains no space and no double quote.
C17_QuotesTabAndNewline ==
    actualArgsLine # <<>> => actualArgsLine[1] =
            JoinQuoted(test_args, [i \in 1..Len(test_args) |-> QuotedByC17(test_args[i])])

RECURSIVE SumOfLengths(_)
SumOfLengths(a) == IF a = <<>> THEN 0 ELSE Len(Head(a)) + SumOfLengths(Tail(a))

QuotedCount(a) == Cardinality({i \in 1..Len(a) : QuotedByC16(a[i])})

\* Where the text of argument i starts in the result (after its opening quote).
StartOfArg(a, i) ==
    SumOfLengths(SubSeq(a, 1, i - 1)) + 2 * QuotedCount(SubSeq(a, 1, i - 1)) + (i - 1)
       + (IF QuotedByC16(a[i]) THEN 1 ELSE 0) + 1

\* C18: consecutive arguments are separated by exactly one space with no
\* leading or trailing separator: for n arguments the length of the result
\* is the sum of the argument lengths plus 2 per quoted argument plus
\* max(n-1, 0) separators, and the empty list gives the empty string.
C18_SingleSpaceSeparators ==
    actualArgsLine # <<>> =>
        LET a == test_args
            r == actualArgsLine[1]
            n == Len(a)
        IN  /\ Len(r) = SumOfLengths(a) + 2 * QuotedCount(a) + (IF n > 1 THEN n - 1 ELSE 0)
            /\ n = 0 => r = <<>>
            /\ \A i \in 1..n :
                   /\ SubSeq(r, StartOfArg(a, i), StartOfArg(a, i) + Len(a[i]) - 1) = a[i]
                   /\ i < n =>
                         r[StartOfArg(a, i) + Len(a[i]) + (IF QuotedByC16(a[i]) THEN 1 ELSE 0)]
                            = " "

\* Two arguments, the second of them quoted, have been formatted.
C18_Witness ==
    /\ actualArgsLine # <<>>
    /\ test_args = << <<"a">>, <<" ", "a">> >>
    /\ Len(actualArgsLine[1]) = 6

\* A number below 100 in two digits.
TwoDigits(n) == <<Digit[(n \div 10) + 1], Digit[(n % 10) + 1]>>

\* "[YYYY-MM-DD HH:MM:SS] "
StampOfClaim(st) ==
    <<"[">> \o NatToText(st.wYear) \o <<"-">> \o TwoDigits(st.wMonth) \o <<"-">>
       \o TwoDigits(st.wDay) \o <<" ">> \o TwoDigits(st.wHour) \o <<":">>
       \o TwoDigits(st.wMinute) \o <<":">> \o TwoDigits(st.wSecond) \o <<"]", " ">>

\* The whole line of a call as the file holds it: the stamp, the text, the
\* end of the line.
LineOfClaim(call) == StampOfClaim(call.st[1]) \o call.text \o <<"CR", "LF">>

\* The lines of the calls that found the file open, in the order they wrote.
RECURSIVE LinesOfClaim(_)
LinesOfClaim(calls) ==
    IF calls = <<>> THEN <<>>
    ELSE (IF Head(calls).open THEN LineOfClaim(Head(calls)) ELSE <<>>)
            \o LinesOfClaim(Tail(calls))

\* Both threads have written to the log.
BothThreadsWrote ==
    \A t \in LogThreads : \E i \in 1..Len(log_done) : log_done[i].thread = t /\ log_done[i].open

\* C13: when several threads call Log, every call's entry is in the log file
\* exactly once as one whole line and no line holds characters of two entries:
\* the file reads as what it held at the start followed by the whole lines
\* of the calls.
C13_LogIsThreadSafe ==
    BothThreadsWrote =>
        \E start \in LogFilesAtStart :
            log_file.data = (IF start.exists THEN start.data ELSE <<"BOM">>)
                               \o LinesOfClaim(log_done)

\* A call of Log has written or has returned in this step.
LogCallEnds == Len(log_done') > Len(log_done)

\* C14: each Log(text) call made while the logger has an open file appends
\* exactly one line "[YYYY-MM-DD HH:MM:SS] text", the previous content of the
\* file is always a prefix of the new content, and a call made while the
\* logger has no open file changes nothing.
C14_LogAppendsOneStampedLine ==
    /\ [][IsPrefix(log_file.data, log_file'.data)]_vars
    /\ [][LogCallEnds =>
            LET call == log_done'[Len(log_done')]
            IN  IF call.open
                THEN log_file'.data = log_file.data \o LineOfClaim(call)
                ELSE UNCHANGED <<log_file, log_pending>>]_vars

\* The byte order mark is the first character of the file and no other one.
BomOnlyAtStart(data) == \A i \in 1..Len(data) : (data[i] = "BOM") <=> (i = 1)

HeaderOfClaim(n) ==
    <<".", ".", ".", " ", "(", "s", "h", "o", "w", "i", "n", "g", " ", "l", "a", "s", "t", " ">>
       \o NatToText(n) \o <<" ", "l", "i", "n", "e", "s", ")">> \o <<"LF">> \o <<"LF">>

ShowLogsLoaded == main_pc = "show_done" /\ command_status_ = "Log file loaded (last 100 lines)."

\* C21: ShowLogs shows the last 100 lines of the log.  The window never holds
\* more than 100 lines and every line is one read of at most 1023 characters;
\* when ShowLogs has ended after opening the file, loaded_data_ is the header
\* with N, a blank line and the last N lines read in their order, N the
\* minimum of 100 and the number of lines read; when the file could not be
\* opened, loaded_data_ is empty and command_status_ is "Log file not found.".
C21_ShowLogsLastHundredLines ==
    /\ Len(lastLines) <= 100
    /\ \A i \in 1..Len(lines_read) : Len(lines_read[i]) <= 1023
    /\ main_pc = "show_done" =>
          \/ /\ ShowLogsLoaded
             /\ log_file.exists
             /\ LET total == Len(lines_read)
                    n == IF total < 100 THEN total ELSE 100
                IN  loaded_data_ = HeaderOfClaim(n) \o JoinLines(lines_read, total - n + 1, total)
          \/ /\ command_status_ = "Log file not found."
             /\ loaded_data_ = <<>>
             /\ lines_read = <<>>

\* ShowLogs has ended on a log of more than 100 lines and kept the last 100.
C21_Witness ==
    /\ ShowLogsLoaded
    /\ Len(lines_read) > 100
    /\ Len(lastLines) = 100
    /\ lastLines[1] = lines_read[Len(lines_read) - 99]

\* The packet of this step has passed through the smoothing.
PacketSmoothed == packet'.got = packet.got + 1 /\ packet'.end = "smoothed"

\* The formats whose samples PollMicrophone reads, by tag and bits per sample.
SupportedFormat(f) ==
    <<f.tag, f.bps>> \in {<<"WAVE_FORMAT_IEEE_FLOAT", 32>>, <<"WAVE_FORMAT_PCM", 16>>,
                          <<"WAVE_FORMAT_PCM", 24>>, <<"WAVE_FORMAT_PCM", 32>>}

\* The largest absolute sample of a packet in units of 1/32768, 0 for a
\* silent packet and for an unsupported format.
LargestSample(pkt) ==
    LET abs == {IF pkt.samples[i] < 0 THEN 0 - pkt.samples[i] ELSE pkt.samples[i] :
                   i \in 1..Len(pkt.samples)}
    IN  IF pkt.silent \/ ~SupportedFormat(device_format) \/ abs = {} THEN 0
        ELSE CHOOSE m \in abs : \A a \in abs : a <= m

\* A level as a number of units of 1 / 2^24.
InUnits(x) == x.n * Pow2(24 - x.e)

LargestFrameCount(channels) ==
    LET r1 == 255 % channels
        r2 == (r1 * 256 + 255) % channels
        r3 == (r2 * 256 + 255) % channels
    IN  <<(255 \div channels) * 256 + ((r1 * 256 + 255) \div channels),
          ((r2 * 256 + 255) \div channels) * 256 + ((r3 * 256 + 255) \div channels)>>

\* frames times the channel count of the device, 1 for 0, is above 2^32 - 1.
TooManySamples(frames) ==
    LET most == LargestFrameCount(IF device_format.channels = 0 THEN 1
                                  ELSE device_format.channels)
    IN  frames[1] > most[1] \/ (frames[1] = most[1] /\ frames[2] > most[2])

\* This step is a GetBuffer that has returned a packet.
PacketReturned == packet'.got = packet.got + 1

\* C23: sample-count overflow guard.  A packet with null data or zero
\* frames is not processed; a non-silent packet whose frame count times the
\* channel count, 1 for 0 channels, is above 2^32 - 1 is rejected with no
\* sample read and mic_level_ unchanged; every other packet is processed.
C23_OverflowGuard ==
    [][PacketReturned =>
          LET invalid == packet'.data = "null" \/ packet'.frames = <<0, 0>>
              rejected == ~invalid /\ ~packet'.silent /\ TooManySamples(packet'.frames)
          IN  /\ invalid => (packet'.end = "invalid" /\ packet'.read = <<>>
                               /\ mic_level_' = mic_level_)
              /\ rejected => (packet'.end = "overflow" /\ packet'.read = <<>>
                                /\ mic_level_' = mic_level_)
              /\ (~invalid /\ ~rejected) => packet'.end = "smoothed"]_vars

\* A packet of 65538 frames of a device of 65535 channels has been rejected
\* after a loud packet, and the level is that of the loud packet.
C23_Witness ==
    /\ packet.end = "overflow" /\ packet.frames = <<1, 2>>
    /\ device_format.channels = 65535
    /\ packet.got = 2 /\ mic_level_ = [n |-> 1, e |-> 2] /\ packet.read = <<>>

\* C25: every GetBuffer that succeeded is followed by a ReleaseBuffer
\* before PollMicrophone returns and before the next GetBuffer, on every
\* path of the loop.
C25_BufferReleased ==
    [][/\ (audio_pc \in PollPcs /\ audio_pc' = "loop") => packet'.released = packet'.got
       /\ PacketReturned => packet.released = packet.got]_vars

\* This step is a call of RenderFrame by RunMessageLoop.
RenderFrameCalled == main_pc = "render" /\ main_pc' # "render"

\* C24: in every run of the message loop, no call of RenderFrame takes
\* place once Cleanup has released the graphics objects or once WM_QUIT has
\* been received; is_running_ is false at the call exactly when the round
\* of the loop has taken WM_QUIT.
C24_NoRenderAfterRelease ==
    [][RenderFrameCalled => (gfx = "live" /\ is_running_)]_vars

\* C27: whenever RenderFrame throws, the error is shown, the loop is left
\* without another frame, and RunMessageLoop returns 1, the code passed to
\* PostQuitMessage, whatever messages were processed before.
C27_RenderErrorReturnsOne ==
    last_frame.result = "render_error" =>
        /\ message_box # <<>> /\ message_box[Len(message_box)] = "Render error"
        /\ main_pc \notin {"pump", "render"}
        /\ run_result # <<>> => run_result = <<1>>

\* This step is the window procedure handling a WM_CHAR or a WM_KEYDOWN.
KeyHandled ==
    /\ main_pc = "pump" /\ msg_queue # <<>>
    /\ Head(msg_queue).type \in {"WM_CHAR", "WM_KEYDOWN"}
    /\ Len(msg_queue') <= Len(msg_queue) /\ msg_queue' # msg_queue

\* C28: once is_running_ is false, no WM_CHAR or WM_KEYDOWN changes
\* user_input_, command_status_ or loaded_data_ or runs a command, and the
\* WM_KEYDOWN and WM_CHAR of one Escape press post the quit message once;
\* while running, Backspace removes the last character of the buffer, if
\* any, and a character other than Enter and Escape is appended, and both
\* leave command_status_ and loaded_data_ unchanged.
C28_KeysIgnoredWhenStopping ==
    [][KeyHandled =>
          LET m == Head(msg_queue)
          IN  /\ ~is_running_ =>
                    UNCHANGED <<user_input_, command_status_, loaded_data_, last_enter,
                                last_io, saved_file, quit_posts, quit_posted, quit_code>>
              /\ (is_running_ /\ m = WmKeyDown("ESC")) =>
                    (quit_posts' = quit_posts + 1 /\ quit_posted' /\ ~is_running_')
              /\ quit_posts' <= 1
              /\ (is_running_ /\ m = WmChar("BS")) =>
                    /\ user_input_' = SubSeq(user_input_, 1, Len(user_input_) - 1)
                    /\ UNCHANGED <<command_status_, loaded_data_>>
              /\ (is_running_ /\ m.type = "WM_CHAR" /\ m.w \notin {"CR", "BS", "ESC"}) =>
                    /\ user_input_' = user_input_ \o <<m.w>>
                    /\ UNCHANGED <<command_status_, loaded_data_>>]_vars

\* Both messages of an Escape press have been handled with a character in
\* the buffer: the quit message was posted once and the buffer is as before.
C28_Witness ==
    /\ main_pc = "pump" /\ msg_queue = <<>> /\ msg_wParam = 27
    /\ ~is_running_ /\ quit_posts = 1 /\ quit_posted /\ user_input_ = <<"e">>

\* C29: when InitializeMicrophone has returned, mic_available_ is true if
\* and only if the audio thread was created with audio_thread_running_ set;
\* after a failure of any step, the creation of the thread included,
\* mic_available_ and audio_thread_running_ are false, there is no audio
\* thread, and start-up has continued.
C29_MicStateConsistent ==
    (main_pc = "loop_start" /\ mic_result # "none") =>
        /\ mic_available_ <=> (audio_thread_ = "open" /\ audio_thread_running_)
        /\ mic_result # "ok" =>
              (~mic_available_ /\ ~audio_thread_running_ /\ audio_thread_ = "null")

\* This step is a call of Cleanup after an earlier one.
CleanupAgain == releases'.cleanups = releases.cleanups + 1 /\ releases.cleanups >= 1

\* C30: over every sequence of OnDestroy, Cleanup and destructor calls the
\* mix format is freed at most once, the handles of the audio thread and of
\* the audio event are closed at most once, and a Cleanup after the first
\* leaves what Cleanup writes as the first left it.
C30_CleanupIdempotent ==
    [][/\ releases'.mix_format <= 1
       /\ releases'.audio_thread <= 1
       /\ releases'.audio_event <= 1
       /\ CleanupAgain =>
             /\ UNCHANGED <<gfx, qr_bitmap_, mix_format_, d2d_gen, d3d_gen>>
             /\ releases'.mix_format = releases.mix_format]_vars

\* OnDestroy, Cleanup and the destructor have all been called on a window
\* with a microphone: one free and one close of each handle.
C30_Witness ==
    /\ main_pc = "destroyed" /\ releases.cleanups = 3
    /\ releases.mix_format = 1 /\ releases.audio_thread = 1 /\ releases.audio_event = 1
    /\ mix_format_ = "freed" /\ audio_thread_ = "closed" /\ audio_event_ = "closed"

\* C26: the join in OnDestroy completes.  Once OnDestroy has cleared
\* audio_thread_running_ and waits for the audio thread, the thread, whose
\* calls return and which the scheduler lets run, leaves its loops and ends,
\* so that the wait returns; the wait also returns for a thread that had
\* ended before, normally or through a structured exception.
C26_JoinCompletes ==
    (main_pc = "join") ~> (audio_thread_ # "open" \/ audio_pc = "ended")

\* OnDestroy waits for a thread that has taken packets and has left its
\* loops without a fault.
C26_Witness ==
    /\ main_pc = "join" /\ audio_thread_ = "open" /\ ~audio_thread_running_
    /\ audio_pc = "ended" /\ audio_fault = <<>> /\ packet.got >= 1

====
